---- MODULE Spec2Model ----
(***************************************************************************)
(* Model of the analytics dashboard's response handling:                   *)
(*   - the SpiceGold range query (useSpiceGoldAnalytics, hooks/            *)
(*     useAnalytics.ts) and its normalisation of the backend payload,      *)
(*   - the chart-ready rows built from the snapshot (chartData,            *)
(*     pages/SpiceGoldAnalytics.tsx),                                      *)
(*   - the top-earners and page-traffic query functions,                   *)
(*   - the per-page aggregation of the traffic page (unnamed/part_002),    *)
(*   - the life of the three queries in the query cache: keys, polls,      *)
(*     refreshes and responses.                                            *)
(*                                                                         *)
(* JavaScript strings are sequences of one-character strings, so that      *)
(* parseInt, trim, template literals and split are computed as the         *)
(* runtime computes them.  JavaScript values that may be undefined, null   *)
(* or NaN are records with a type tag t.                                   *)
(***************************************************************************)
EXTENDS Integers, Sequences, FiniteSets

VARIABLES timePeriod, sgFetch, sgQuery, teFetch, teQuery, paFetch, paQuery,
          trafficPeriod, dateRange, effectPending, cache, wire, issued, late,
          sgRange

\* the state of the fetch lifecycle: the traffic page's period and date
\* range, the query cache, the requests on the network; late records that
\* a response settled a key its view had left; sgRange is the date range of
\* the SpiceGold page
fetchVars ==
  <<trafficPeriod, dateRange, effectPending, cache, wire, issued, late, sgRange>>

vars == <<timePeriod, sgFetch, sgQuery, teFetch, teQuery, paFetch, paQuery,
          trafficPeriod, dateRange, effectPending, cache, wire, issued, late,
          sgRange>>

-----------------------------------------------------------------------------
(* Bounds of the model *)

\* dates in one by-date payload
MaxDates == 2

\* bracket entries in one by-date payload, all its dates together
MaxRanges == 2

\* bracket entries in one flat or aggregated list
MaxList == 2

\* users of one bracket entry
MaxUsers == 1

\* how far above a threshold of the bracket tables a probed bound goes
MaxOver == 1

\* traffic records in one payload
MaxRecords == 3

\* visits counted by one traffic record
MaxVisits == 1

\* requests started after the pages mounted
MaxRequests == 2

-----------------------------------------------------------------------------
(* JavaScript values *)

Undefined == [t |-> "undefined", s |-> <<>>, n |-> 0]

Null == [t |-> "null", s |-> <<>>, n |-> 0]

NaN == [t |-> "NaN", s |-> <<>>, n |-> 0]

Infinity == [t |-> "Infinity", s |-> <<>>, n |-> 0]

Str(s) == [t |-> "string", s |-> s, n |-> 0]

Num(n) == [t |-> "number", s |-> <<>>, n |-> n]

\* ToBoolean: the values the code tests with &&, || and ?:
Truthy(v) ==
  CASE v.t = "string" -> v.s # <<>>
    [] v.t = "number" -> v.n # 0
    [] v.t = "array" -> TRUE
    [] v.t = "object" -> TRUE
    [] OTHER -> FALSE

\* a || b
OrElse(a, b) == IF Truthy(a) THEN a ELSE b

Digits == <<"0", "1", "2", "3", "4", "5", "6", "7", "8", "9">>

IsDigit(c) == \E i \in 1..10 : Digits[i] = c

DigitVal(c) == (CHOOSE i \in 1..10 : Digits[i] = c) - 1

IsSpace(c) == c = " "

RECURSIVE TrimStart(_)
TrimStart(s) ==
  IF s # <<>> /\ IsSpace(Head(s)) THEN TrimStart(Tail(s)) ELSE s

RECURSIVE TrimEnd(_)
TrimEnd(s) ==
  IF s # <<>> /\ IsSpace(s[Len(s)]) THEN TrimEnd(SubSeq(s, 1, Len(s) - 1)) ELSE s

\* String.prototype.trim
Trim(s) == TrimEnd(TrimStart(s))

RECURSIVE DigitsValue(_, _)
DigitsValue(s, acc) ==
  IF s # <<>> /\ IsDigit(Head(s))
  THEN DigitsValue(Tail(s), 10 * acc + DigitVal(Head(s)))
  ELSE acc

\* parseInt(string): leading white space is skipped, an optional sign is
\* read, then the longest prefix of decimal digits; NaN when there is none.
ParseInt(v) ==
  IF v.t # "string" THEN NaN
  ELSE LET t0 == TrimStart(v.s)
           neg == t0 # <<>> /\ Head(t0) = "-"
           t1 == IF t0 # <<>> /\ Head(t0) \in {"-", "+"} THEN Tail(t0) ELSE t0
       IN IF t1 = <<>> \/ ~IsDigit(Head(t1)) THEN NaN
          ELSE Num(IF neg THEN 0 - DigitsValue(t1, 0) ELSE DigitsValue(t1, 0))

\* parseInt(x) || 0, as a plain integer
ParseIntOr0(v) == OrElse(ParseInt(v), Num(0)).n

RECURSIVE NatToStr(_)
NatToStr(n) ==
  IF n < 10 THEN <<Digits[n + 1]>>
  ELSE NatToStr(n \div 10) \o <<Digits[(n % 10) + 1]>>

\* `${x}` for a string, a number or undefined
Template(v) ==
  CASE v.t = "string" -> v.s
    [] v.t = "number" -> IF v.n < 0 THEN <<"-">> \o NatToStr(0 - v.n) ELSE NatToStr(v.n)
    [] v.t = "NaN" -> <<"N", "a", "N">>
    [] v.t = "null" -> <<"n", "u", "l", "l">>
    [] OTHER -> <<"u", "n", "d", "e", "f", "i", "n", "e", "d">>

\* the first index i >= from with sep at s[i..], or 0
RECURSIVE IndexOf(_, _, _)
IndexOf(s, sep, from) ==
  IF from + Len(sep) - 1 > Len(s) THEN 0
  ELSE IF SubSeq(s, from, from + Len(sep) - 1) = sep THEN from
  ELSE IndexOf(s, sep, from + 1)

\* String.prototype.split(sep) for a non-empty separator
RECURSIVE Split(_, _)
Split(s, sep) ==
  LET i == IndexOf(s, sep, 1)
  IN IF i = 0 THEN <<s>>
     ELSE <<SubSeq(s, 1, i - 1)>> \o Split(SubSeq(s, i + Len(sep), Len(s)), sep)

\* the property f of an object, undefined when the object has none
HasField(o, f) == f \in DOMAIN o

-----------------------------------------------------------------------------
(* The range merge of the dated branches (hooks/useAnalytics.ts:223-263)    *)

TimePeriods == {"daily", "weekly", "monthly", "overall"}

KeySeparator == <<"_", "_">>

\* a key that leaves the upper bound out
RangeKeyFromOnly(range) == Template(range.reward_from_range) \o KeySeparator

\* `${range.reward_from_range}__${range.reward_to_range || ""}`
RangeKey(range) ==
  Template(range.reward_from_range) \o KeySeparator
    \o Template(OrElse(range.reward_to_range, Str(<<>>)))

\* Map.prototype.get(key) || 0 on a Map kept as its entries in insertion order
MapGetOr0(rangeMap, key) ==
  IF \E i \in 1..Len(rangeMap) : rangeMap[i].key = key
  THEN rangeMap[CHOOSE i \in 1..Len(rangeMap) : rangeMap[i].key = key].value
  ELSE 0

\* Map.prototype.set: an existing key keeps its position
MapSet(rangeMap, key, value) ==
  IF \E i \in 1..Len(rangeMap) : rangeMap[i].key = key
  THEN [i \in 1..Len(rangeMap) |->
          IF rangeMap[i].key = key THEN [key |-> key, value |-> value]
          ELSE rangeMap[i]]
  ELSE Append(rangeMap, [key |-> key, value |-> value])

\* dateData.ranges.forEach((range) => rangeMap.set(rangeKey, currentTotal + range.total_users))
RECURSIVE AccumulateRanges(_, _)
AccumulateRanges(rangeMap, ranges) ==
  IF ranges = <<>> THEN rangeMap
  ELSE LET range == Head(ranges)
           rangeKey == RangeKey(range)
           currentTotal == MapGetOr0(rangeMap, rangeKey)
       IN AccumulateRanges(
            MapSet(rangeMap, rangeKey, currentTotal + range.total_users),
            Tail(ranges))

\* dateData.ranges && Array.isArray(dateData.ranges)
HasRangesArray(dateData) == HasField(dateData, "ranges")

\* data.forEach((dateData) => { if (ranges is an array) ... })
RECURSIVE AccumulateDates(_, _)
AccumulateDates(rangeMap, dates) ==
  IF dates = <<>> THEN rangeMap
  ELSE LET dateData == Head(dates)
       IN AccumulateDates(
            IF HasRangesArray(dateData)
            THEN AccumulateRanges(rangeMap, dateData.ranges)
            ELSE rangeMap,
            Tail(dates))

\* const [from, to] = rangeKey.split("__"); { from || "", to || "", totalUsers }
EntryToRange(entry) ==
  LET parts == Split(entry.key, KeySeparator)
      from == Str(parts[1])
      to == IF Len(parts) >= 2 THEN Str(parts[2]) ELSE Undefined
  IN [reward_from_range |-> OrElse(from, Str(<<>>)),
      reward_to_range |-> OrElse(to, Str(<<>>)),
      total_users |-> entry.value]

EntriesToRanges(rangeMap) ==
  [i \in 1..Len(rangeMap) |-> EntryToRange(rangeMap[i])]

\* the comparator's key: parseInt(a.reward_from_range) || 0
SortKey(range) == ParseIntOr0(range.reward_from_range)

\* insertion of r behind every element whose key is not greater (stable)
RECURSIVE InsertSorted(_, _)
InsertSorted(sorted, r) ==
  IF sorted = <<>> THEN <<r>>
  ELSE IF SortKey(Head(sorted)) <= SortKey(r)
       THEN <<Head(sorted)>> \o InsertSorted(Tail(sorted), r)
       ELSE <<r>> \o sorted

\* the sort left out: the ranges stay in the Map's insertion order
SortByFromUnsorted(ranges) == ranges

\* aggregatedRanges.sort((a, b) => aFrom - bFrom): Array.prototype.sort is stable
RECURSIVE SortByFrom(_)
SortByFrom(ranges) ==
  IF ranges = <<>> THEN <<>>
  ELSE InsertSorted(SortByFrom(SubSeq(ranges, 1, Len(ranges) - 1)),
                    ranges[Len(ranges)])

\* a reduce that passes over the first range
RECURSIVE SumUsersSkipFirst(_)
SumUsersSkipFirst(ranges) ==
  IF Len(ranges) <= 1 THEN 0
  ELSE ranges[Len(ranges)].total_users
         + SumUsersSkipFirst(SubSeq(ranges, 1, Len(ranges) - 1))

\* a reduce that starts from 1 instead of 0
RECURSIVE SumUsersFromOne(_)
SumUsersFromOne(ranges) ==
  IF ranges = <<>> THEN 1
  ELSE Head(ranges).total_users + SumUsersFromOne(Tail(ranges))

\* ranges.reduce((sum, range) => sum + range.total_users, 0)
RECURSIVE SumUsers(_)
SumUsers(ranges) ==
  IF ranges = <<>> THEN 0
  ELSE Head(ranges).total_users + SumUsers(Tail(ranges))

\* the snapshot of the monthly, weekly and daily branches
MergedSnapshot(result) ==
  LET rangeMap == AccumulateDates(<<>>, result.data.items)
      aggregatedRanges == SortByFrom(EntriesToRanges(rangeMap))
      totalUsers == SumUsers(aggregatedRanges)
  IN [code |-> result.code,
      data |-> [t |-> "object",
                total_users |-> totalUsers,
                ranges |-> aggregatedRanges,
                weeklyBreakdown |-> result.data.items],
      message |-> result.message]

-----------------------------------------------------------------------------
(* The SpiceGold range query function (hooks/useAnalytics.ts:152-396)       *)

Failure(message) == [status |-> "error", data |-> Null, error |-> message]

Success(value) == [status |-> "success", data |-> value, error |-> ""]

Pending == [status |-> "pending", data |-> Null, error |-> ""]

\* result.message || fallback
MessageOr(message, fallback) == IF message # "" THEN message ELSE fallback

\* result.data && typeof result.data === "object" && "daily" in result.data
\*   && "aggregated" in result.data
IsCombined(data) ==
  /\ Truthy(data)
  /\ data.t \in {"object", "array"}
  /\ HasField(data, "daily")
  /\ HasField(data, "aggregated")

\* the snapshot of the combined (daily + aggregated) shape
CombinedSnapshot(result) ==
  [code |-> result.code,
   data |-> [t |-> "object",
             total_users |-> result.data.aggregated.unique_users,
             ranges |-> result.data.aggregated.ranges,
             weeklyBreakdown |-> result.data.daily,
             unique_users |-> result.data.aggregated.unique_users,
             totalSg |-> result.data.aggregated.totalSg,
             averageSg |-> result.data.aggregated.averageSg],
   message |-> result.message]

InvalidFormatMessage(period) ==
  CASE period = "monthly" -> "Invalid monthly data format"
    [] period = "weekly" -> "Invalid weekly data format"
    [] OTHER -> "Invalid daily data format"

\* a daily branch that returns the payload as received
DatedBranchDailyAsReceived(period, result) ==
  IF period = "daily"
  THEN Success([code |-> result.code, data |-> result.data, message |-> result.message])
  ELSE IF ~Truthy(result.data) \/ result.data.t # "array"
       THEN Failure(InvalidFormatMessage(period))
       ELSE Success(MergedSnapshot(result))

\* dated branches that take data that is not an array for an empty array
DatedBranchLenient(period, result) ==
  IF ~Truthy(result.data) \/ result.data.t # "array"
  THEN Success(MergedSnapshot([result EXCEPT !.data = [t |-> "array", items |-> <<>>]]))
  ELSE Success(MergedSnapshot(result))

\* the monthly, weekly and daily branches: the same statements, differing in
\* the text of the error only
DatedBranch(period, result) ==
  IF ~Truthy(result.data) \/ result.data.t # "array"
  THEN Failure(InvalidFormatMessage(period))
  ELSE Success(MergedSnapshot(result))

\* the period's branch tried before the combined shape
NormalizePeriodFirst(period, result) ==
  IF period \in {"monthly", "weekly", "daily"} THEN DatedBranch(period, result)
  ELSE IF IsCombined(result.data) THEN Success(CombinedSnapshot(result))
  ELSE Success([code |-> result.code, data |-> result.data, message |-> result.message])

\* the normalisation that follows the envelope checks
Normalize(period, result) ==
  IF IsCombined(result.data) THEN Success(CombinedSnapshot(result))
  ELSE IF period \in {"monthly", "weekly", "daily"} THEN DatedBranch(period, result)
  ELSE Success([code |-> result.code, data |-> result.data, message |-> result.message])

\* a query function that leaves the envelope code unchecked
SpiceGoldQueryFnCodeUnchecked(period, response) ==
  IF ~response.ok THEN Failure("Failed to fetch SpiceGold analytics data")
  ELSE Normalize(period, response)

\* queryFn: transport status, envelope code, then the normalisation
SpiceGoldQueryFn(period, response) ==
  IF ~response.ok THEN Failure("Failed to fetch SpiceGold analytics data")
  ELSE IF response.code # 200
       THEN Failure(MessageOr(response.message, "Failed to fetch data"))
       ELSE Normalize(period, response)

\* a later run that adds the users of the previous snapshot to its total
SpiceGoldRefetchOnto(period, response, previous) ==
  LET run == SpiceGoldQueryFn(period, response)
  IN IF run.status = "success" /\ previous.status = "success"
        /\ run.data.data.t = "object" /\ HasField(run.data.data, "total_users")
        /\ previous.data.data.t = "object" /\ HasField(previous.data.data, "total_users")
     THEN Success([run.data EXCEPT
                     !.data.total_users = @ + previous.data.data.total_users])
     ELSE run

\* a later run of queryFn for the same key: rangeMap is a new Map() of the
\* run and nothing of the previous result is read
SpiceGoldRefetch(period, response, previous) == SpiceGoldQueryFn(period, response)

-----------------------------------------------------------------------------
(* The top-earners query function (hooks/useAnalytics.ts:400-422)           *)

TopEarnersQueryFn(response) ==
  IF ~response.ok THEN Failure("Failed to fetch top earners")
  ELSE IF response.code # 200
       THEN Failure(MessageOr(response.message, "Failed to fetch top earners"))
       ELSE Success([code |-> response.code, data |-> response.data,
                     message |-> response.message])

-----------------------------------------------------------------------------
(* The page-traffic query function (useAnalytics, unnamed/part_004:38-94)   *)

\* { ...page, date: dateEntry.date }
WithDate(page, date) ==
  [f \in DOMAIN page \cup {"date"} |-> IF f = "date" THEN date ELSE page[f]]

\* dateEntry.pages.forEach((page) => flattenedData.push({ ...page, date }))
DatedPages(dateEntry) ==
  [i \in 1..Len(dateEntry.pages) |-> WithDate(dateEntry.pages[i], dateEntry.date)]

RECURSIVE FlattenPages(_)
FlattenPages(dates) ==
  IF dates = <<>> THEN <<>>
  ELSE DatedPages(Head(dates)) \o FlattenPages(Tail(dates))

\* result.data.length > 0 && "pages" in result.data[0] ? flattened : data;
\* reading length of null, or pages of an entry that has none, throws
FlattenTraffic(data) ==
  IF data.t # "array"
  THEN Failure("TypeError: Cannot read properties of null (reading 'length')")
  ELSE IF data.items # <<>> /\ HasField(data.items[1], "pages")
       THEN IF \A i \in 1..Len(data.items) : HasField(data.items[i], "pages")
            THEN Success(FlattenPages(data.items))
            ELSE Failure("TypeError: Cannot read properties of undefined (reading 'forEach')")
       ELSE Success(data.items)

AnalyticsQueryFn(response) ==
  IF ~response.ok THEN Failure("Failed to fetch analytics data")
  ELSE IF response.code # 200
       THEN Failure(MessageOr(response.message, "Failed to fetch analytics data"))
       ELSE FlattenTraffic(response.data)

-----------------------------------------------------------------------------
(* What the page reads from the query (pages/SpiceGoldAnalytics.tsx)        *)

\* analyticsData?.data?.total_users || 0
TotalUsersOf(query) ==
  IF query.status = "success" /\ query.data.data.t = "object"
     /\ HasField(query.data.data, "total_users")
  THEN query.data.data.total_users
  ELSE 0

\* analyticsData?.data?.ranges, the empty list standing for undefined
RangesOf(query) ==
  IF query.status = "success" /\ query.data.data.t = "object"
     /\ HasField(query.data.data, "ranges")
  THEN query.data.data.ranges
  ELSE <<>>

\* a filter that drops the ranges without users under every period
RECURSIVE SelectRangesPositive(_, _)
SelectRangesPositive(ranges, period) ==
  IF ranges = <<>> THEN <<>>
  ELSE IF Head(ranges).total_users > 0
       THEN <<Head(ranges)>> \o SelectRangesPositive(Tail(ranges), period)
       ELSE SelectRangesPositive(Tail(ranges), period)

\* Array.prototype.filter
RECURSIVE SelectRanges(_, _)
SelectRanges(ranges, period) ==
  IF ranges = <<>> THEN <<>>
  ELSE IF period = "overall" \/ Head(ranges).total_users > 0
       THEN <<Head(ranges)>> \o SelectRanges(Tail(ranges), period)
       ELSE SelectRanges(Tail(ranges), period)

\* item.reward_to_range && item.reward_to_range.trim() ? parseInt(...) : null
ParseToRange(to) ==
  IF Truthy(to) /\ Truthy(Str(Trim(to.s))) THEN ParseInt(to) ELSE Null

\* toRange !== null && !isNaN(toRange) ? `${fromRange}-${toRange}` : `${fromRange}+`
RangeName(fromRange, toRange) ==
  IF toRange.t = "number"
  THEN Template(Num(fromRange)) \o <<"-">> \o Template(toRange)
  ELSE Template(Num(fromRange)) \o <<"+">>

\* the if-chain of getBracketColor: each threshold with its colour
ColorTable ==
  << <<50, "#ef4444">>, <<100, "#c026d3">>, <<400, "#2563eb">>, <<700, "#facc15">>,
     <<1000, "#16a34a">>, <<4000, "#0284c7">>, <<7000, "#f97316">>,
     <<15000, "#7e22ce">>, <<23000, "#78350f">>, <<31000, "#f59e0b">>,
     <<62000, "#06b6d4">>, <<93000, "#4f46e5">> >>

DefaultColor == "#1e293b"

\* the first row of an if-chain `if (max <= t) return x`, or the fall-through
RECURSIVE FirstAtMost(_, _, _)
FirstAtMost(table, max, fallThrough) ==
  IF table = <<>> THEN fallThrough
  ELSE IF max <= Head(table)[1] THEN Head(table)[2]
       ELSE FirstAtMost(Tail(table), max, fallThrough)

\* a getBracketColor that stops at the daily cap under the daily period
GetBracketColorByPeriod(from, to, period) ==
  LET max == OrElse(to, Num(100000)).n
  IN IF period = "daily" /\ max > 1000 THEN DefaultColor
     ELSE FirstAtMost(ColorTable, max, DefaultColor)

\* getBracketColor(from, to, period): max = to || 100000
GetBracketColor(from, to, period) ==
  LET max == OrElse(to, Num(100000)).n
  IN FirstAtMost(ColorTable, max, DefaultColor)

BracketInfo(label, insight) == [label |-> label, insight |-> insight]

\* the if-chain of getBracketLabel under period === "daily"
DailyLabelTable ==
  << <<50, BracketInfo("Dormant / New", "Barely engaged or newly joined users")>>,
     <<100, BracketInfo("Low Activity", "Lightly active; minimal gameplay")>>,
     <<400, BracketInfo("Moderate Activity", "Casual players with steady activity")>>,
     <<700, BracketInfo("High Activity", "Consistent users engaging daily")>>,
     <<1000, BracketInfo("Top Daily Performer", "Fully active users hitting daily cap")>> >>

\* the if-chain of getBracketLabel under weekly, monthly and overall
SharedLabelTable ==
  << <<50, BracketInfo("Dormant / New", "Barely engaged or newly joined users")>>,
     <<100, BracketInfo("Low Activity", "Lightly active users; small daily actions")>>,
     <<400, BracketInfo("Moderate Activity",
                        "Casual players showing consistent participation")>>,
     <<700, BracketInfo("High Activity", "Active users engaging regularly")>>,
     <<1000, BracketInfo("Top Daily Performer", "Fully active users nearing daily cap")>>,
     <<4000, BracketInfo("Consistent User",
                         "Users maintaining steady activity over multiple days")>>,
     <<7000, BracketInfo("Engaged User", "Regular, retained players engaging weekly")>>,
     <<15000, BracketInfo("High Retention User",
                          "Strongly retained users with multi-week engagement")>>,
     <<23000, BracketInfo("Core Loyal User", "Power players; actively earning daily")>>,
     <<31000, BracketInfo("Top Monthly Performer", "Maxed-out or near-max monthly users")>>,
     <<62000, BracketInfo("Elite / Long-Term Loyalist",
                          "Users active across months; consistently re-engage")>>,
     <<93000, BracketInfo("Legacy Tier / Ultra Engaged",
                          "Top 1-2% of users - highest loyalty")>> >>

EliteTier == BracketInfo("Elite Tier", "Top performers with exceptional engagement")

\* a getBracketLabel that reads the shared ladder under every period
GetBracketLabelSharedOnly(from, to, period) ==
  LET max == OrElse(to, Num(from + 10000)).n
  IN FirstAtMost(SharedLabelTable, max, EliteTier)

\* getBracketLabel(from, to, period): max = to || from + 10000; the emoji of
\* each row is fixed by its label and left out
GetBracketLabel(from, to, period) ==
  LET max == OrElse(to, Num(from + 10000)).n
  IN IF period = "daily" THEN FirstAtMost(DailyLabelTable, max, EliteTier)
     ELSE IF period \in {"weekly", "monthly", "overall"}
          THEN FirstAtMost(SharedLabelTable, max, EliteTier)
          ELSE EliteTier

\* Number.prototype.toFixed(1) of a / b * 100 read back by parseFloat, in
\* tenths of a percent (ties to the larger tenth)
PercentTenths(a, b) == (2000 * a + b) \div (2 * b)

\* analyticsData?.data?.total_users || 1
ShareDenominator(query) ==
  IF TotalUsersOf(query) = 0 THEN 1 ELSE TotalUsersOf(query)

ChartRow(item, query, period) ==
  LET fromRange == ParseIntOr0(item.reward_from_range)
      toRange == ParseToRange(item.reward_to_range)
      bracketInfo == GetBracketLabel(fromRange, toRange, period)
  IN [name |-> RangeName(fromRange, toRange),
      bracketLabel |-> bracketInfo.label,
      bracketInsight |-> bracketInfo.insight,
      users |-> item.total_users,
      percentage |-> PercentTenths(item.total_users, ShareDenominator(query)),
      color |-> GetBracketColor(fromRange, toRange, period),
      fromRange |-> fromRange,
      toRange |-> toRange]

\* chartData: the filtered ranges mapped to chart rows
ChartData(query, period) ==
  LET shown == SelectRanges(RangesOf(query), period)
  IN [i \in 1..Len(shown) |-> ChartRow(shown[i], query, period)]

-----------------------------------------------------------------------------------------------------------------------------------------------------
(* What the traffic page derives from the query (unnamed/part_002)          *)

\* analyticsData of the page: the query's data, the empty list standing for
\* undefined
AnalyticsDataOf(query) == IF query.status = "success" THEN query.data ELSE <<>>

\* item.page === "credential" ? "landing_page" : item.page
NormalizedPage(item) == IF item.page = "credential" THEN "landing_page" ELSE item.page

\* item.f || 0 of an optional counter
CounterOr0(item, f) == IF HasField(item, f) THEN item[f] ELSE 0

\* acc.find((a) => a.page === normalizedPage), as an index, 0 for undefined
FindPage(acc, page) ==
  IF \E i \in 1..Len(acc) : acc[i].page = page
  THEN CHOOSE i \in 1..Len(acc) :
         /\ acc[i].page = page
         /\ \A j \in 1..(i - 1) : acc[j].page # page
  ELSE 0

\* the record pushed for a page seen for the first time
FirstOfPage(item) ==
  [page |-> NormalizedPage(item),
   totalUsers |-> item.totalUsers,
   old |-> item.old,
   new |-> item.new,
   firstTime |-> item.firstTime,
   todayCreated |-> CounterOr0(item, "todayCreated"),
   firstTimeVisitorsCreated |-> CounterOr0(item, "firstTimeVisitorsCreated"),
   nonFirstTimeVisitorsCreated |-> CounterOr0(item, "nonFirstTimeVisitorsCreated")]

\* the in-place update of the record found
AddToPage(existing, item) ==
  [page |-> existing.page,
   totalUsers |-> existing.totalUsers + item.totalUsers,
   old |-> existing.old + item.old,
   new |-> existing.new + item.new,
   firstTime |-> existing.firstTime + item.firstTime,
   todayCreated |-> existing.todayCreated + CounterOr0(item, "todayCreated"),
   firstTimeVisitorsCreated |->
     existing.firstTimeVisitorsCreated + CounterOr0(item, "firstTimeVisitorsCreated"),
   nonFirstTimeVisitorsCreated |->
     existing.nonFirstTimeVisitorsCreated
       + CounterOr0(item, "nonFirstTimeVisitorsCreated")]

\* a reducer that keeps the counters of the last record of a page
AggregateStepLastWins(acc, item) ==
  LET found == FindPage(acc, NormalizedPage(item))
  IN IF found # 0
     THEN [acc EXCEPT ![found] = FirstOfPage(item)]
     ELSE Append(acc, FirstOfPage(item))

\* a reducer that looks the raw page name up and so never merges the alias
AggregateStepRawName(acc, item) ==
  LET found == FindPage(acc, item.page)
  IN IF found # 0
     THEN [acc EXCEPT ![found] = AddToPage(acc[found], item)]
     ELSE Append(acc, FirstOfPage(item))

\* the reducer of aggregatedByPage
AggregateStep(acc, item) ==
  LET found == FindPage(acc, NormalizedPage(item))
  IN IF found # 0
     THEN [acc EXCEPT ![found] = AddToPage(acc[found], item)]
     ELSE Append(acc, FirstOfPage(item))

\* analyticsData?.reduce(reducer, []) || []
RECURSIVE ReducePages(_, _)
ReducePages(acc, data) ==
  IF data = <<>> THEN acc
  ELSE ReducePages(AggregateStep(acc, Head(data)), Tail(data))

AggregatedByPage(data) == ReducePages(<<>>, data)

\* aggregatedByPage.reduce((sum, item) => sum + item.totalUsers, 0)
RECURSIVE OverallTotalUsers(_)
OverallTotalUsers(pages) ==
  IF pages = <<>> THEN 0
  ELSE Head(pages).totalUsers + OverallTotalUsers(Tail(pages))

\* ((a / b) * 100).toFixed(0) for counters a, b >= 0: the nearest whole
\* percent, NaN for 0 / 0 and Infinity for a / 0
ToFixedPercent(a, b) ==
  IF b = 0 THEN (IF a = 0 THEN NaN ELSE Infinity)
  ELSE Num((200 * a + b) \div (2 * b))

\* a percentage computed whatever the denominator
UnguardedPercent(a, b) == ToFixedPercent(a, b)

\* b > 0 ? ((a / b) * 100).toFixed(0) : "0"
GuardedPercent(a, b) == IF b > 0 THEN ToFixedPercent(a, b) ELSE Num(0)

\* the four percentages of a row of "User Visits by Page"
PagePercentages(item, overallTotalUsers) ==
  LET pageTotal == item.new + item.old + item.firstTime
  IN [page |-> item.page,
      pageTotal |-> pageTotal,
      newUsersPercentage |-> GuardedPercent(item.new, pageTotal),
      oldUsersPercentage |-> GuardedPercent(item.old, pageTotal),
      firstTimeUsersPercentage |-> GuardedPercent(item.firstTime, pageTotal),
      overallPagePercentage |-> GuardedPercent(pageTotal, overallTotalUsers)]

\* pageDistributionData.map: the rows of "User Visits by Page"
PageBreakdown(data) ==
  LET pages == AggregatedByPage(data)
  IN [i \in 1..Len(pages) |-> PagePercentages(pages[i], OverallTotalUsers(pages))]

-----
(* Backend payloads the model draws from *)

SeqUpTo(S, n) == UNION {[1..k -> S] : k \in 0..n}

BoundPairs ==
  { <<Str(<<"0">>), Str(<<"5", "0">>)>>,
    <<Str(<<"5", "1">>), Str(<<"1", "0", "0">>)>>,
    <<Str(<<"1", "0", "1">>), Str(<<>>)>>,
    <<Str(<<"1", "0", "1">>), Undefined>>,
    <<Str(<<"1", "0", "1">>), Str(<<" ">>)>>,
    <<Str(<<"1", "0", "1">>), Str(<<"a", "b", "c">>)>> }

\* the brackets a by-date payload draws from: two numeric lower bounds whose
\* numeric and textual orders differ, and one lower bound with an absent, an
\* empty and a non-numeric upper bound
DatedPairs ==
  { b \in BoundPairs :
      /\ b[1] # Str(<<"0">>)
      /\ b[2] # Str(<<" ">>) }

UserCounts == {0, MaxUsers}

RangesOver(pairs) ==
  { [reward_from_range |-> b[1], reward_to_range |-> b[2], total_users |-> u] :
      b \in pairs, u \in UserCounts }

RangePool == RangesOver(BoundPairs)

DatedRangePool == RangesOver(DatedPairs)

DateNames == <<"2025-01-01", "2025-01-02", "2025-01-03", "2025-01-04">>

\* the entries the backend may send for the i-th date with n brackets in it
DateEntries(i, n) ==
  (IF n = 0 THEN { [date |-> DateNames[i]] } ELSE {})
    \cup { [date |-> DateNames[i], ranges |-> rs] : rs \in [1..n -> DatedRangePool] }

\* the by-date arrays of k dates holding at most n brackets together
RECURSIVE DatesOfLen(_, _)
DatesOfLen(k, n) ==
  IF k = 0 THEN { <<>> }
  ELSE UNION { { Append(a, e) : a \in DatesOfLen(k - 1, n - m), e \in DateEntries(k, m) } :
                 m \in 0..n }

ArrayOf(items) == [t |-> "array", items |-> items]

NestedArrays ==
  { ArrayOf(a) : a \in UNION { DatesOfLen(k, MaxRanges) : k \in 0..MaxDates } }

FlatArrays == { ArrayOf(a) : a \in SeqUpTo(DatedRangePool, MaxList) }

StandardObjects ==
  { [t |-> "object", total_users |-> n, ranges |-> rs] :
      n \in 0..(MaxUsers + 1), rs \in SeqUpTo(RangePool, MaxList) }

\* the brackets of a combined payload, listed by the backend in either order
CombinedRangePool ==
  { r \in RangePool :
      /\ r.total_users = MaxUsers
      /\ r.reward_to_range \in {Str(<<"5", "0">>), Str(<<"1", "0", "0">>)} }

\* the per-date part of a combined payload: no date, or one date holding
\* brackets of the combined pool
CombinedDailies ==
  { <<>> }
    \cup { <<[date |-> DateNames[1], ranges |-> rs]>> :
             rs \in SeqUpTo(CombinedRangePool, 1) }

CombinedObjects ==
  { [t |-> "object",
     daily |-> d,
     aggregated |-> [unique_users |-> n, totalSg |-> 0, averageSg |-> 0, ranges |-> rs]] :
      d \in CombinedDailies,
      n \in 0..(MaxUsers + 1),
      rs \in SeqUpTo(CombinedRangePool, MaxList) }

OtherObject == [t |-> "object", status |-> "n/a"]

SgDataPool ==
  {Null, OtherObject} \cup NestedArrays \cup FlatArrays \cup StandardObjects
    \cup CombinedObjects

ErrorEnvelopes ==
  { r \in [ok : BOOLEAN, code : {200, 500}, message : {"", "quota exceeded"}, data : {Null}] :
      ~(r.ok /\ r.code = 200) }

SgResponses ==
  { [ok |-> TRUE, code |-> 200, message |-> "success", data |-> d] : d \in SgDataPool }
    \cup ErrorEnvelopes

NoFetch == [ok |-> FALSE, code |-> 0, message |-> "", data |-> Null]

Accepted(data) == [ok |-> TRUE, code |-> 200, message |-> "success", data |-> data]

\* responses that probe the envelope handling of the SpiceGold query
SgEnvelopeProbes ==
  ErrorEnvelopes
    \cup { Accepted(Null),
           Accepted([t |-> "object", total_users |-> 0, ranges |-> <<>>]) }

\* the upper bounds that probe the bracket tables: each threshold and the
\* values just above it, the smallest bounds, and the absent, the empty and
\* the non-numeric bound
BracketTos ==
  { Str(NatToStr(ColorTable[i][1] + d)) : i \in 1..Len(ColorTable), d \in 0..MaxOver }
    \cup { Str(NatToStr(n)) : n \in 0..MaxOver }
    \cup { Str(<<>>), Undefined, Str(<<"a", "b", "c">>) }

\* the lower bounds that probe from + 10000 around the last threshold
BracketFroms ==
  { Str(<<"0">>) } \cup { Str(NatToStr(83000 + d)) : d \in 0..MaxOver }

\* combined payloads of one bracket, which reach the chart under every period
BracketProbes ==
  { Accepted([t |-> "object",
              daily |-> <<>>,
              aggregated |-> [unique_users |-> MaxUsers, totalSg |-> 0, averageSg |-> 0,
                              ranges |-> <<[reward_from_range |-> f,
                                            reward_to_range |-> to,
                                            total_users |-> MaxUsers]>>]]) :
      f \in BracketFroms, to \in BracketTos }

EarnerPool ==
  { [rank |-> 1, linkedId |-> 1, totalRewardPoints |-> 10, developerId |-> "d1"] }

TeResponses ==
  ErrorEnvelopes \cup { Accepted(ArrayOf(a)) : a \in SeqUpTo(EarnerPool, 1) }

PageRecordPool ==
  { [page |-> pg, totalUsers |-> 2, old |-> 1, new |-> 1, firstTime |-> 0] :
      pg \in {"credential", "landing_page"} }

PaDataPool ==
  { Null }
    \cup { ArrayOf(a) : a \in SeqUpTo(PageRecordPool, 1) }
    \cup { ArrayOf(<<[date |-> DateNames[1], pages |-> pgs]>>) :
             pgs \in SeqUpTo(PageRecordPool, 1) }

PaResponses == ErrorEnvelopes \cup { Accepted(d) : d \in PaDataPool }

TrafficPages == {"credential", "landing_page", "home"}

\* the counters of one traffic record: none, or v new, v + 1 old and v + 2
\* first-time users
VisitCounts ==
  { [totalUsers |-> 0, old |-> 0, new |-> 0, firstTime |-> 0] }
    \cup { [totalUsers |-> 3 * v + 3, old |-> v + 1, new |-> v, firstTime |-> v + 2] :
             v \in 1..MaxVisits }

WithPage(counts, page) ==
  [f \in DOMAIN counts \cup {"page"} |-> IF f = "page" THEN page ELSE counts[f]]

\* a record that carries the optional counters of created visitors
WithCreated(record) ==
  [f \in DOMAIN record
           \cup {"todayCreated", "firstTimeVisitorsCreated", "nonFirstTimeVisitorsCreated"} |->
     CASE f = "todayCreated" -> record.new + 1
       [] f = "firstTimeVisitorsCreated" -> record.new
       [] f = "nonFirstTimeVisitorsCreated" -> 1
       [] OTHER -> record[f]]

\* the records a payload draws from: every count under both names of the
\* landing page, with and without the optional counters, and the largest
\* count under the third page
TrafficRecords ==
  LET plain == { WithPage(c, pg) : c \in VisitCounts, pg \in TrafficPages }
      landing == { r \in plain : r.page # "home" }
  IN landing
       \cup { WithCreated(r) : r \in { x \in landing : x.new = MaxVisits } }
       \cup { r \in plain : r.page = "home" /\ r.new = MaxVisits }

TrafficArrays == { ArrayOf(a) : a \in SeqUpTo(TrafficRecords, MaxRecords) }

\* one date carrying the pages of that day
TrafficByDate ==
  { ArrayOf(<<[date |-> DateNames[1], pages |-> pgs]>>) :
      pgs \in SeqUpTo(TrafficRecords, 2) }

TrafficProbes == { Accepted(d) : d \in TrafficArrays \cup TrafficByDate }

\* counters that probe the denominators: all zero, all set, a total without
\* parts and parts without a total
ShareCounts ==
  { [totalUsers |-> t * (3 * MaxVisits + 3),
     old |-> q * (MaxVisits + 1), new |-> q * MaxVisits, firstTime |-> q * (MaxVisits + 2)] :
      t \in {0, 1}, q \in {0, 1} }

ShareTrafficProbes ==
  { Accepted(ArrayOf(a)) :
      a \in SeqUpTo({ WithPage(c, pg) : c \in ShareCounts, pg \in {"landing_page", "home"} },
                    MaxRecords - 1) }

\* combined payloads of one bracket that probe the share of a range
ShareProbes ==
  { Accepted([t |-> "object",
              daily |-> <<>>,
              aggregated |-> [unique_users |-> n, totalSg |-> 0, averageSg |-> 0,
                              ranges |-> <<[reward_from_range |-> Str(<<"0">>),
                                            reward_to_range |-> Str(<<"5", "0">>),
                                            total_users |-> u]>>]]) :
      n \in 0..MaxUsers, u \in 0..MaxUsers }

-----------------------------------------------------------------------------
(* The landing-page counters of the header cards (unnamed/part_002:107-209) *)

\* analyticsData.filter(page is "landing_page" or "credential")
CredentialEntries(analyticsData) ==
  SelectSeq(analyticsData,
    LAMBDA item : item.page = "landing_page" \/ item.page = "credential")

\* credentialEntries.reduce(...) from the record of zeros
RECURSIVE SumEntries(_)
SumEntries(entries) ==
  IF entries = <<>>
  THEN [page |-> "landing_page", totalUsers |-> 0, old |-> 0, new |-> 0, firstTime |-> 0,
        todayCreated |-> 0, firstTimeVisitorsCreated |-> 0,
        nonFirstTimeVisitorsCreated |-> 0]
  ELSE LET acc == SumEntries(SubSeq(entries, 1, Len(entries) - 1))
           item == entries[Len(entries)]
       IN [page |-> "landing_page",
           totalUsers |-> acc.totalUsers + item.totalUsers,
           old |-> acc.old + item.old,
           new |-> acc.new + item.new,
           firstTime |-> acc.firstTime + item.firstTime,
           todayCreated |-> acc.todayCreated + CounterOr0(item, "todayCreated"),
           firstTimeVisitorsCreated |->
             acc.firstTimeVisitorsCreated + CounterOr0(item, "firstTimeVisitorsCreated"),
           nonFirstTimeVisitorsCreated |->
             acc.nonFirstTimeVisitorsCreated
               + CounterOr0(item, "nonFirstTimeVisitorsCreated")]

\* credentialPageData: undefined without landing records, their sum under
\* weekly and monthly, the first of them under daily
CredentialPageData(analyticsData, period) ==
  LET credentialEntries == CredentialEntries(analyticsData)
  IN IF credentialEntries = <<>> THEN Undefined
     ELSE IF period \in {"weekly", "monthly"} THEN SumEntries(credentialEntries)
     ELSE credentialEntries[1]

\* aggregatedByPage.find((item) => item.page === "landing_page")
LandingPageData(analyticsData) ==
  LET found == SelectSeq(AggregatedByPage(analyticsData),
                 LAMBDA item : item.page = "landing_page")
  IN IF found = <<>> THEN Undefined ELSE found[1]

-----------------------------------------------------------------------------
(* The per-date, per-page breakdown of the trend indicators                 *)
(* (unnamed/part_002:977-1018)                                              *)

\* Array.from(dateGroups.keys()).sort(): the dates of the records that carry
\* one, in ascending order
TrendDates(analyticsData) ==
  SelectSeq(DateNames,
    LAMBDA date : \E i \in 1..Len(analyticsData) :
                    HasField(analyticsData[i], "date") /\ analyticsData[i].date = date)

\* items.find(...): the first record of the date that has the page, or, for
\* the landing page, the name "credential"
PageItems(analyticsData, date, pageName) ==
  SelectSeq(analyticsData,
    LAMBDA item : /\ HasField(item, "date") /\ item.date = date
                  /\ \/ item.page = pageName
                     \/ (pageName = "landing_page" /\ item.page = "credential"))

\* pageData of a page: per date, the counters of the record found, 0 without
PageData(analyticsData, pageName) ==
  LET dates == TrendDates(analyticsData)
  IN [k \in 1..Len(dates) |->
        LET found == PageItems(analyticsData, dates[k], pageName)
        IN [date |-> dates[k],
            totalUsers |-> IF found = <<>> THEN 0 ELSE found[1].totalUsers,
            new |-> IF found = <<>> THEN 0 ELSE found[1].new,
            old |-> IF found = <<>> THEN 0 ELSE found[1].old,
            firstTime |-> IF found = <<>> THEN 0 ELSE found[1].firstTime]]

-----------------------------------------------------------------------------
(* The CSV exports.  An export is what a click leaves behind: the file, as  *)
(* its header and its data rows, and the toast.                             *)

NoNotice == "none"

\* a click that returns, or throws, before a file is made
NoExport(notice) == [made |-> FALSE, headers |-> <<>>, rows |-> <<>>, notice |-> notice]

\* link.click() on the blob of headers and rows, then the toast
Download(headers, rows) ==
  [made |-> TRUE, headers |-> headers, rows |-> rows, notice |-> "Download Started"]

\* handleDownloadCsv of the SpiceGold page
RangeCsvExport(query, period) ==
  LET chartData == ChartData(query, period)
  IN IF chartData = <<>> THEN NoExport("No data to download")
     ELSE Download(<<"Range", "Bracket Label", "Users", "Percentage", "Insight">>,
                   [i \in 1..Len(chartData) |->
                      <<chartData[i].name, chartData[i].users,
                        chartData[i].percentage, chartData[i].bracketInsight>>])

\* handleDownloadCsv of the traffic page
TrafficCsvExport(query) ==
  LET aggregatedByPage == AggregatedByPage(AnalyticsDataOf(query))
  IN IF aggregatedByPage = <<>> THEN NoExport("No data to download")
     ELSE Download(<<"Page", "Total Users", "New Users", "Old Users", "First Time Users">>,
                   [i \in 1..Len(aggregatedByPage) |->
                      <<aggregatedByPage[i].page, aggregatedByPage[i].totalUsers,
                        aggregatedByPage[i].new, aggregatedByPage[i].old,
                        aggregatedByPage[i].firstTime>>])

\* handleDownloadTimelineCsv of the traffic page
TimelineCsvExport(query) ==
  LET analyticsData == AnalyticsDataOf(query)
  IN IF analyticsData = <<>> THEN NoExport("No data to download")
     ELSE Download(<<"Date", "Page", "Total Users", "New Users", "Old Users",
                     "First Time Users">>,
                   [i \in 1..Len(analyticsData) |->
                      <<IF HasField(analyticsData[i], "date")
                        THEN analyticsData[i].date ELSE "",
                        analyticsData[i].page, analyticsData[i].totalUsers,
                        analyticsData[i].new, analyticsData[i].old,
                        analyticsData[i].firstTime>>])

\* topEarnersData?.data?.slice(0, 100) || []
TopEarners(query) ==
  IF query.status = "success" /\ query.data.data.t = "array"
  THEN query.data.data.items
  ELSE <<>>

\* handleDownloadCSV of the top players page: if (!topEarners.length) return
TopPlayersCsvExport(query) ==
  LET topEarners == TopEarners(query)
  IN IF topEarners = <<>> THEN NoExport(NoNotice)
     ELSE Download(<<"Rank", "Linked ID", "Developer ID", "Total Reward Points (SG)">>,
                   [i \in 1..Len(topEarners) |->
                      <<topEarners[i].rank, topEarners[i].linkedId,
                        topEarners[i].developerId, topEarners[i].totalRewardPoints>>])

\* analyticsData?.data?.weeklyBreakdown is there (an empty array is truthy)
HasBreakdown(query) ==
  /\ query.status = "success"
  /\ query.data.data.t = "object"
  /\ HasField(query.data.data, "weeklyBreakdown")

\* the dates of the backend that a date range lets through the filter
\* date >= from and date <= end of to: no range lets every date through; the
\* default range of daily starts at yesterday's time of day, so yesterday's
\* own date (read as midnight) passes only early in the day
SelectedDates(range) ==
  CASE range = "none" -> { {DateNames[i] : i \in 1..Len(DateNames)} }
    [] range = "yesterday" -> { {}, {DateNames[3]} }
    [] range = "picked" -> { {DateNames[1]} }
    [] OTHER -> { {DateNames[i] : i \in 1..Len(DateNames)} }

\* dateData.ranges.reduce((sum, r) => sum + r.total_users, 0)
DayUsers(dateData) == SumUsers(dateData.ranges)

\* day.ranges.find((r2) => same from and same to)?.total_users, 0 for undefined
MatchingUsers(day, range) ==
  LET found == SelectSeq(day.ranges,
                 LAMBDA r2 : /\ r2.reward_from_range = range.reward_from_range
                             /\ r2.reward_to_range = range.reward_to_range)
  IN IF found = <<>> THEN 0 ELSE found[1].total_users

\* the column title of a range: toRange ? `${fromRange}-${toRange} SG`
\* : `${fromRange}+ SG`
RangeColumn(r) ==
  LET fromRange == ParseIntOr0(r.reward_from_range)
      toRange == ParseToRange(r.reward_to_range)
  IN IF Truthy(toRange)
     THEN Template(Num(fromRange)) \o <<"-">> \o Template(toRange) \o <<" ", "S", "G">>
     ELSE Template(Num(fromRange)) \o <<"+", " ", "S", "G">>

\* the dates the columns are taken from: users on the day, and the date
\* inside the selected date range
DatesWithData(weeklyBreakdown, selected) ==
  SelectSeq(weeklyBreakdown, LAMBDA d : DayUsers(d) > 0 /\ d.date \in selected)

\* the ranges of the first such date that have users on some such date
AllRanges(datesWithData) ==
  IF datesWithData = <<>> THEN <<>>
  ELSE SelectSeq(datesWithData[1].ranges,
         LAMBDA r : \E i \in 1..Len(datesWithData) : MatchingUsers(datesWithData[i], r) > 0)

\* the data rows: every date with users, whatever the date range
BreakdownRows(weeklyBreakdown, allRanges) ==
  LET exported == SelectSeq(weeklyBreakdown, LAMBDA d : DayUsers(d) > 0)
  IN [i \in 1..Len(exported) |->
        [date |-> exported[i].date,
         cells |-> [j \in 1..Len(allRanges) |-> MatchingUsers(exported[i], allRanges[j])],
         total |-> DayUsers(exported[i])]]

\* onClick of the breakdown's Download CSV; a date without ranges makes
\* dateData.ranges.reduce throw
BreakdownCsvExport(query, selected) ==
  IF ~HasBreakdown(query) THEN NoExport(NoNotice)
  ELSE LET weeklyBreakdown == query.data.data.weeklyBreakdown
       IN IF \E i \in 1..Len(weeklyBreakdown) : ~HasField(weeklyBreakdown[i], "ranges")
          THEN NoExport(NoNotice)
          ELSE LET allRanges == AllRanges(DatesWithData(weeklyBreakdown, selected))
               IN Download(<<"Date">> \o [j \in 1..Len(allRanges) |-> RangeColumn(allRanges[j])]
                             \o <<"Total Users">>,
                           BreakdownRows(weeklyBreakdown, allRanges))

-----------------------------------------------------------------------------
(* What the pages render of a query: the body, and the message shown for a *)
(* failure ("" when none is shown).                                         *)

\* the traffic page: a toast with the error's message while isError; the
\* body is the spinner, "No data available" or the aggregate
TrafficView(query) ==
  [body |-> IF query.status = "pending" THEN <<"loading">>
            ELSE IF AnalyticsDataOf(query) = <<>> THEN <<"No data available">>
            ELSE <<"pages", AggregatedByPage(AnalyticsDataOf(query))>>,
   message |-> IF query.status = "error" THEN query.error ELSE ""]

\* the SpiceGold page: it reads data and isLoading of its two queries, never
\* isError or error
SpiceGoldView(ranges, earners, period) ==
  [body |-> IF ranges.status = "pending" \/ earners.status = "pending"
            THEN <<"loading">>
            ELSE <<"charts", ChartData(ranges, period), TopEarners(earners)>>,
   message |-> ""]

\* the top players page: the spinner, the failure text or the leaderboard
TopPlayersView(query) ==
  [body |-> IF query.status = "pending" THEN <<"loading">>
            ELSE IF query.status = "error" THEN <<"failed">>
            ELSE <<"players", TopEarners(query)>>,
   message |-> IF query.status = "error" THEN "Failed to load top players data" ELSE ""]

-----------------------------------------------------------------------------
(* Query keys and the query cache *)

TrafficPeriods == {"daily", "weekly", "monthly"}

\* the values of the traffic page's dateRange: undefined bounds, the default
\* range of each period, a range picked in the calendar
DateRanges == {"none", "yesterday", "week", "month", "picked"}

\* the days a calendar shows, as offsets from today
CalendarDays == -2..2

\* disabled={(date) => date >= today}: the days a calendar lets the user pick
PickableDays == { day \in CalendarDays : ~(day >= 0) }

\* where the upper bound of a range that is set can lie, in days from today:
\* yesterday; endOfWeek(today), the Sunday 0 to 6 days ahead; endOfMonth(today),
\* 0 to 30 days ahead; a day picked in the calendar
ToDays(range) ==
  CASE range = "yesterday" -> {-1}
    [] range = "week" -> 0..6
    [] range = "month" -> 0..30
    [] range = "picked" -> PickableDays
    [] OTHER -> {}

\* the range the period effect and the Reset button set
DefaultRange(period) ==
  CASE period = "daily" -> "yesterday"
    [] period = "weekly" -> "week"
    [] period = "monthly" -> "month"

\* queryKey: ["analytics", timePeriod, dateRange]
AnalyticsKey(period, range) == <<"analytics", period, range>>

\* queryKey: ["spicegold-analytics", timePeriod]
SpiceGoldKey(period) == <<"spicegold-analytics", period>>

\* queryKey: ["top-earners"]
TopEarnersKey == <<"top-earners">>

QueryKeys ==
  { AnalyticsKey(p, r) : p \in TrafficPeriods, r \in DateRanges }
    \cup { SpiceGoldKey(p) : p \in TimePeriods }
    \cup { TopEarnersKey }

QueryNames == {"analytics", "spicegold-analytics", "top-earners"}

\* refetchInterval: 30000 of useAnalytics and useTopEarners; the SpiceGold
\* query sets none
PolledQueries == {"analytics", "top-earners"}

\* staleTime: 5 minutes for the SpiceGold query, the default 0 otherwise
FreshFor(key) == IF key[1] = "spicegold-analytics" THEN {TRUE, FALSE} ELSE {FALSE}

NoData == <<>>

\* a cache entry: the key whose response is held as data, and whether the
\* library awaits a response for the key
IdleEntry == [data |-> NoData, fetching |-> FALSE]

LoadingEntry == [data |-> NoData, fetching |-> TRUE]

\* the keys the three pages show when they mount
MountKeys == { AnalyticsKey("daily", "none"), SpiceGoldKey("overall"), TopEarnersKey }

-----------------------------------------------------------------------------
(* The SpiceGold page as a state machine *)

Init ==
  /\ timePeriod = "overall"
  /\ sgFetch = NoFetch
  /\ sgQuery = Pending
  /\ teFetch = NoFetch
  /\ teQuery = Pending
  /\ paFetch = NoFetch
  /\ paQuery = Pending
  /\ trafficPeriod = "daily"
  /\ dateRange = "none"
  /\ effectPending = TRUE
  /\ cache = [k \in QueryKeys |-> IF k \in MountKeys THEN LoadingEntry ELSE IdleEntry]
  /\ wire = [k \in QueryKeys |-> IF k \in MountKeys THEN 1 ELSE 0]
  /\ issued = 0
  /\ late = FALSE
  /\ sgRange = "none"

\* setTimePeriod(p): the query key changes, the query of the new key starts
\* without data
SetTimePeriod ==
  \E p \in TimePeriods \ {timePeriod} :
    /\ timePeriod' = p
    /\ sgFetch' = NoFetch
    /\ sgQuery' = Pending
    /\ UNCHANGED <<teFetch, teQuery, paFetch, paQuery>>
    /\ UNCHANGED fetchVars

\* the fetch of the current key settles: one run of the query function on the
\* backend's response (the hook sets no refetchInterval and the data stays
\* fresh for staleTime, so a settled key is fetched again only after the key
\* changed)
SpiceGoldQueryOn(responses) ==
  /\ sgQuery.status = "pending"
  /\ \E response \in responses :
       /\ sgFetch' = response
       /\ sgQuery' = SpiceGoldQueryFn(timePeriod, response)
       /\ UNCHANGED <<timePeriod, teFetch, teQuery, paFetch, paQuery>>
       /\ UNCHANGED fetchVars

RunSpiceGoldQuery == SpiceGoldQueryOn(SgResponses)

Next == SetTimePeriod \/ RunSpiceGoldQuery

Spec == Init /\ [][Next]_vars

\* by-date payloads whose brackets all have users, over a bounded and an
\* open-ended bracket
RerunProbes ==
  { Accepted(d) :
      d \in { n \in NestedArrays :
                \A i \in 1..Len(n.items) :
                  HasField(n.items[i], "ranges") =>
                    \A j \in 1..Len(n.items[i].ranges) :
                      /\ n.items[i].ranges[j].total_users = MaxUsers
                      /\ n.items[i].ranges[j].reward_to_range
                           \in {Str(<<"1", "0", "0">>), Str(<<>>)} } }

\* the first fetch of the key settling on such a payload
FirstRerunProbe == SpiceGoldQueryOn(RerunProbes)

\* the key is fetched again (after staleTime, on the next mount) and queryFn
\* runs on the response, the same payload or another
RefetchSpiceGoldQuery ==
  /\ sgQuery.status # "pending"
  /\ issued < MaxRequests
  /\ \E response \in RerunProbes :
       /\ sgFetch' = response
       /\ sgQuery' = SpiceGoldRefetch(timePeriod, response, sgQuery)
  /\ issued' = issued + 1
  /\ UNCHANGED <<timePeriod, teFetch, teQuery, paFetch, paQuery>>
  /\ UNCHANGED <<trafficPeriod, dateRange, effectPending, cache, wire, late, sgRange>>

NextRerun == SetTimePeriod \/ FirstRerunProbe \/ RefetchSpiceGoldQuery

SpecRerun == Init /\ [][NextRerun]_vars

-----------------------------------------------------------------------------
(* The three queries side by side, on responses that probe the envelope *)

ProbeSpiceGoldQuery == SpiceGoldQueryOn(SgEnvelopeProbes)

\* a run of the top-earners query function: the first fetch, or a refetch of
\* the 30-second interval
RunTopEarnersQuery ==
  \E response \in TeResponses :
    /\ teFetch' = response
    /\ teQuery' = TopEarnersQueryFn(response)
    /\ UNCHANGED <<timePeriod, sgFetch, sgQuery, paFetch, paQuery>>
    /\ UNCHANGED fetchVars

\* a run of the page-traffic query function: the first fetch, or a refetch of
\* the 30-second interval
RunAnalyticsQuery ==
  \E response \in PaResponses :
    /\ paFetch' = response
    /\ paQuery' = AnalyticsQueryFn(response)
    /\ UNCHANGED <<timePeriod, sgFetch, sgQuery, teFetch, teQuery>>
    /\ UNCHANGED fetchVars

NextEnvelope ==
  SetTimePeriod \/ ProbeSpiceGoldQuery \/ RunTopEarnersQuery \/ RunAnalyticsQuery

SpecEnvelope == Init /\ [][NextEnvelope]_vars

\* the SpiceGold query settling on a payload of one probed bracket
ProbeBracketQuery == SpiceGoldQueryOn(BracketProbes)

NextBrackets == SetTimePeriod \/ ProbeBracketQuery

SpecBrackets == Init /\ [][NextBrackets]_vars

\* the first fetch of the page-traffic query after the page mounted
FirstAnalyticsQueryOn(responses) ==
  /\ paQuery.status = "pending"
  /\ \E response \in responses :
       /\ paFetch' = response
       /\ paQuery' = AnalyticsQueryFn(response)
       /\ UNCHANGED <<timePeriod, sgFetch, sgQuery, teFetch, teQuery>>
       /\ UNCHANGED fetchVars

FirstAnalyticsQuery == FirstAnalyticsQueryOn(TrafficProbes)

NextTraffic == FirstAnalyticsQuery

SpecTraffic == Init /\ [][NextTraffic]_vars

\* the queries of the two pages settling on payloads that probe the
\* denominators of their percentages
ProbeShareQuery == SpiceGoldQueryOn(ShareProbes)

ProbeTrafficShares == FirstAnalyticsQueryOn(ShareTrafficProbes)

NextShares == SetTimePeriod \/ ProbeShareQuery \/ ProbeTrafficShares

SpecShares == Init /\ [][NextShares]_vars

-----------------------------------------------------------------------------
(* The life of the queries in the query cache.  A response is abstracted  *)
(* to the key it was requested under.                                      *)

\* the key a page's observer shows
ViewKey(name) ==
  CASE name = "analytics" -> AnalyticsKey(trafficPeriod, dateRange)
    [] name = "spicegold-analytics" -> SpiceGoldKey(timePeriod)
    [] name = "top-earners" -> TopEarnersKey

\* the pages' own state and the settled results stay as they are
PagesUnchanged ==
  UNCHANGED <<sgFetch, sgQuery, teFetch, teQuery, paFetch, paQuery, late>>

\* a request leaves for the key; counted against MaxRequests when budgeted
Send(key, budgeted) ==
  /\ budgeted => issued < MaxRequests
  /\ cache' = [cache EXCEPT ![key].fetching = TRUE]
  /\ wire' = [wire EXCEPT ![key] = @ + 1]
  /\ issued' = IF budgeted THEN issued + 1 ELSE issued

\* the observer turns to a key: the query is fetched unless a response is
\* awaited or its data is still fresh
Observe(key, fresh, budgeted) ==
  IF cache[key].fetching \/ (cache[key].data # NoData /\ fresh)
  THEN UNCHANGED <<cache, wire, issued>>
  ELSE Send(key, budgeted)

\* setTimePeriod(period) of the traffic page
ChangeTrafficPeriod(budgeted) ==
  \E p \in TrafficPeriods \ {trafficPeriod} :
    /\ trafficPeriod' = p
    /\ effectPending' = TRUE
    /\ Observe(AnalyticsKey(p, dateRange), FALSE, budgeted)
    /\ UNCHANGED <<timePeriod, dateRange, sgRange>>
    /\ PagesUnchanged

\* the effect on [timePeriod]: setDateRange to the default range of the period
RunPeriodEffect(budgeted) ==
  /\ effectPending
  /\ effectPending' = FALSE
  /\ dateRange' = DefaultRange(trafficPeriod)
  /\ IF DefaultRange(trafficPeriod) = dateRange
     THEN UNCHANGED <<cache, wire, issued>>
     ELSE Observe(AnalyticsKey(trafficPeriod, DefaultRange(trafficPeriod)), FALSE, budgeted)
  /\ UNCHANGED <<timePeriod, trafficPeriod, sgRange>>
  /\ PagesUnchanged

\* setDateRange of the calendar (a picked range, or none) and of Reset
SetDateRange(budgeted) ==
  \E r \in {"picked", "none", DefaultRange(trafficPeriod)} \ {dateRange} :
    /\ (r = DefaultRange(trafficPeriod)) => dateRange # "none"
    /\ dateRange' = r
    /\ Observe(AnalyticsKey(trafficPeriod, r), FALSE, budgeted)
    /\ UNCHANGED <<timePeriod, trafficPeriod, effectPending, sgRange>>
    /\ PagesUnchanged

\* the default range the SpiceGold page's effect on [timePeriod] sets
SpiceGoldDefaultRange(period) ==
  IF period = "overall" THEN "none" ELSE DefaultRange(period)

\* setTimePeriod(period) of the SpiceGold page, with the effect that sets the
\* period's default range; the query key holds the period only
ChangeSpiceGoldPeriod(budgeted) ==
  \E p \in TimePeriods \ {timePeriod} :
    \E fresh \in FreshFor(SpiceGoldKey(p)) :
      /\ timePeriod' = p
      /\ sgRange' = SpiceGoldDefaultRange(p)
      /\ Observe(SpiceGoldKey(p), fresh, budgeted)
      /\ UNCHANGED <<trafficPeriod, dateRange, effectPending>>
      /\ PagesUnchanged

\* a tick of refetchInterval: no request while one is awaited for the key
PollTick(name, budgeted) ==
  /\ name \in PolledQueries
  /\ ~cache[ViewKey(name)].fetching
  /\ Send(ViewKey(name), budgeted)
  /\ UNCHANGED <<timePeriod, trafficPeriod, dateRange, effectPending, sgRange>>
  /\ PagesUnchanged

\* isLoading of the traffic query: no data yet and a response awaited
IsLoading == LET entry == cache[ViewKey("analytics")]
             IN entry.data = NoData /\ entry.fetching

\* a click on Refresh, disabled={isLoading}: refetch() gives up the response
\* awaited, whose request stays on the network, and sends a new request
Refresh(budgeted) ==
  /\ ~IsLoading
  /\ Send(ViewKey("analytics"), budgeted)
  /\ UNCHANGED <<timePeriod, trafficPeriod, dateRange, effectPending, sgRange>>
  /\ PagesUnchanged

\* the entries had the response been written to the key the view shows now
SettleIntoView(key, ok) ==
  [cache EXCEPT ![key].fetching = FALSE,
                ![ViewKey(key[1])].data = IF ok THEN key ELSE @]

\* the entries after the awaited response of a key arrived
Settle(key, ok) ==
  [cache EXCEPT ![key] = [data |-> IF ok THEN key ELSE @.data, fetching |-> FALSE]]

\* a response arrives: the awaited one settles the entry of its key, one
\* given up is dropped
Arrive ==
  \E key \in QueryKeys :
    /\ wire[key] > 0
    /\ wire' = [wire EXCEPT ![key] = @ - 1]
    /\ \/ /\ cache[key].fetching
          /\ \E ok \in BOOLEAN :
               /\ cache' = Settle(key, ok)
               /\ late' = (late \/ (ok /\ key # ViewKey(key[1])))
       \/ /\ wire[key] > (IF cache[key].fetching THEN 1 ELSE 0)
          /\ UNCHANGED <<cache, late>>
    /\ UNCHANGED <<timePeriod, trafficPeriod, dateRange, effectPending, issued, sgRange>>
    /\ UNCHANGED <<sgFetch, sgQuery, teFetch, teQuery, paFetch, paQuery>>

\* setDateRange of the SpiceGold page's calendar and Reset: the hook takes
\* the period only, so dateRangeForApi reaches neither the key nor the URL
\* and the view keeps the entry of the period
SetSpiceGoldRange ==
  \E r \in {"picked", "none", SpiceGoldDefaultRange(timePeriod)} \ {sgRange} :
    /\ (r = SpiceGoldDefaultRange(timePeriod)) => sgRange # "none"
    /\ sgRange' = r
    /\ UNCHANGED <<timePeriod, trafficPeriod, dateRange, effectPending>>
    /\ UNCHANGED <<cache, wire, issued>>
    /\ PagesUnchanged

NextFetch ==
  \/ ChangeTrafficPeriod(TRUE)
  \/ RunPeriodEffect(TRUE)
  \/ SetDateRange(TRUE)
  \/ ChangeSpiceGoldPeriod(TRUE)
  \/ \E name \in PolledQueries : PollTick(name, TRUE)
  \/ Refresh(TRUE)
  \/ Arrive

SpecFetch == Init /\ [][NextFetch]_vars

\* the date ranges of the two pages: the calendars, Reset, the effects on
\* [timePeriod] and the network
NextRanges ==
  \/ RunPeriodEffect(TRUE)
  \/ SetDateRange(TRUE)
  \/ ChangeSpiceGoldPeriod(TRUE)
  \/ SetSpiceGoldRange
  \/ Arrive

SpecRanges == Init /\ [][NextRanges]_vars

\* the mounted views left to themselves, without any user action: the effect
\* after mount, the interval timers and the network.  A timer that is due
\* fires, and a request on the network ends with a response or an error.
NextPolling ==
  \/ RunPeriodEffect(FALSE)
  \/ \E name \in PolledQueries : PollTick(name, FALSE)
  \/ Arrive

SpecPolling ==
  /\ Init
  /\ [][NextPolling]_vars
  /\ \A name \in PolledQueries : WF_vars(PollTick(name, FALSE))
  /\ WF_vars(Arrive)
  /\ WF_vars(RunPeriodEffect(FALSE))

TypeOK ==
  /\ timePeriod \in TimePeriods
  /\ sgQuery.status \in {"pending", "success", "error"}

-----------------------------------------------------------------------------
(* Vocabulary of the properties *)

DatedPeriods == {"daily", "weekly", "monthly"}

\* the query of the current key has settled on a response with envelope code 200
Settled200 == sgQuery.status # "pending" /\ sgFetch.ok /\ sgFetch.code = 200

IsArray(data) == data.t = "array"

\* an array of per-date entries each holding a ranges array
IsNestedByDate(data) ==
  /\ IsArray(data)
  /\ data.items # <<>>
  /\ \A i \in 1..Len(data.items) : HasField(data.items[i], "ranges")

\* an array of flat range objects, none with a nested ranges field
IsFlat(data) ==
  /\ IsArray(data)
  /\ data.items # <<>>
  /\ \A i \in 1..Len(data.items) :
       /\ ~HasField(data.items[i], "ranges")
       /\ HasField(data.items[i], "reward_from_range")
       /\ HasField(data.items[i], "total_users")

IsStandard(data) ==
  data.t = "object" /\ HasField(data, "total_users") /\ HasField(data, "ranges")

\* every range of every date entry, in input order
RECURSIVE InputRanges(_)
InputRanges(items) ==
  IF items = <<>> THEN <<>>
  ELSE (IF HasField(Head(items), "ranges") THEN Head(items).ranges ELSE <<>>)
         \o InputRanges(Tail(items))

\* the upper bound of a pair: a missing bound counts as the empty one
PairTo(to) == IF to.t = "undefined" THEN Str(<<>>) ELSE to

SamePair(a, b) ==
  /\ a.reward_from_range = b.reward_from_range
  /\ PairTo(a.reward_to_range) = PairTo(b.reward_to_range)

\* the users of the first n ranges that carry the pair of r
RECURSIVE UsersOfPair(_, _, _)
UsersOfPair(ranges, n, r) ==
  IF n = 0 THEN 0
  ELSE UsersOfPair(ranges, n - 1, r)
         + (IF SamePair(ranges[n], r) THEN ranges[n].total_users ELSE 0)

\* the users of the first n ranges
RECURSIVE UsersOfFirst(_, _)
UsersOfFirst(ranges, n) ==
  IF n = 0 THEN 0 ELSE UsersOfFirst(ranges, n - 1) + ranges[n].total_users

UsersOfAll(ranges) == UsersOfFirst(ranges, Len(ranges))

\* what a consumer reads of a query: whether it succeeded, ranges, total_users
Outcome(query) ==
  [ok |-> query.status = "success",
   ranges |-> RangesOf(query),
   total_users |-> TotalUsersOf(query)]

EmptyOutcome == [ok |-> TRUE, ranges |-> <<>>, total_users |-> 0]

-----------------------------------------------------------------------------
(* C1 *)

-----------------------------------------------------------------------------
(* C2 *)

\* an object with both a daily field and an aggregated field
IsCombinedShape(data) ==
  data.t = "object" /\ HasField(data, "daily") /\ HasField(data, "aggregated")

\* C2: the combined shape wins first, for every period.  Whenever a code-200
\* payload's data has both a daily and an aggregated field, the snapshot's
\* total_users is aggregated.unique_users (also when the ranges sum to
\* another number), its ranges are aggregated.ranges and daily is kept
\* unchanged as the per-date breakdown.
C2_CombinedFirst ==
  (Settled200 /\ IsCombinedShape(sgFetch.data)) =>
    /\ sgQuery.status = "success"
    /\ TotalUsersOf(sgQuery) = sgFetch.data.aggregated.unique_users
    /\ RangesOf(sgQuery) = sgFetch.data.aggregated.ranges
    /\ HasField(sgQuery.data.data, "weeklyBreakdown")
    /\ sgQuery.data.data.weeklyBreakdown = sgFetch.data.daily

\* a combined payload under the daily period whose unique_users differs from
\* the sum of its ranges
C2_Witness ==
  /\ Settled200 /\ IsCombinedShape(sgFetch.data) /\ timePeriod = "daily"
  /\ sgFetch.data.daily # <<>>
  /\ sgFetch.data.aggregated.unique_users # UsersOfAll(sgFetch.data.aggregated.ranges)
  /\ sgFetch.data.aggregated.unique_users > 0
  /\ sgQuery.status = "success"
  /\ TotalUsersOf(sgQuery) = sgFetch.data.aggregated.unique_users

-----------------------------------------------------------------------------
(* C3 *)

\* C3 as stated: the same code-200 payload normalizes to the same ranges and
\* total_users under every period.
C3_SamePayloadSameSnapshot ==
  Settled200 =>
    \A p \in TimePeriods : Outcome(SpiceGoldQueryFn(p, sgFetch)) = Outcome(sgQuery)

\* C3, amended: the combined shape is recognised from the payload under every
\* period; every other payload is handled by the branch of the requested
\* period.  Daily, weekly and monthly normalize the same payload to the same
\* ranges and total_users, and succeed exactly when data is an array (a
\* standard object is rejected); overall returns the payload as received (a
\* nested-by-date array is not merged).
C3_PeriodBranches ==
  Settled200 =>
    /\ IsCombinedShape(sgFetch.data) =>
         \A p \in TimePeriods : SpiceGoldQueryFn(p, sgFetch) = sgQuery
    /\ (~IsCombinedShape(sgFetch.data) /\ timePeriod \in DatedPeriods) =>
         /\ \A p \in DatedPeriods :
              Outcome(SpiceGoldQueryFn(p, sgFetch)) = Outcome(sgQuery)
         /\ (sgQuery.status = "success") <=> IsArray(sgFetch.data)
    /\ (~IsCombinedShape(sgFetch.data) /\ timePeriod = "overall") =>
         /\ sgQuery.status = "success"
         /\ sgQuery.data.data = sgFetch.data

\* a nested-by-date array read under overall: returned as received, while the
\* weekly branch would have merged it into buckets
C3_Witness ==
  /\ Settled200 /\ timePeriod = "overall" /\ IsNestedByDate(sgFetch.data)
  /\ sgQuery.status = "success"
  /\ sgQuery.data.data = sgFetch.data
  /\ RangesOf(sgQuery) = <<>>
  /\ RangesOf(SpiceGoldQueryFn("weekly", sgFetch)) # <<>>

-----------------------------------------------------------------------------
(* C4 *)

\* C4 as stated: flat shape.  When a code-200 payload's data is an array of
\* flat range objects, the snapshot has one bucket per element, in input
\* order, with the element's bounds and user count, and total_users is the
\* sum of the elements' total_users.
C4_FlatShape ==
  (Settled200 /\ IsFlat(sgFetch.data)) =>
    /\ sgQuery.status = "success"
    /\ Len(RangesOf(sgQuery)) = Len(sgFetch.data.items)
    /\ \A i \in 1..Len(sgFetch.data.items) :
         /\ SamePair(RangesOf(sgQuery)[i], sgFetch.data.items[i])
         /\ RangesOf(sgQuery)[i].total_users = sgFetch.data.items[i].total_users
    /\ TotalUsersOf(sgQuery) = UsersOfAll(sgFetch.data.items)

-----------------------------------------------------------------------------
(* C5 *)

\* C5: sum invariant.  For every snapshot produced from a flat or
\* nested-by-date payload, total_users (as the page reads it) equals the sum
\* of total_users over the snapshot's ranges.
C5_SumInvariant ==
  (Settled200 /\ sgQuery.status = "success"
     /\ (IsFlat(sgFetch.data) \/ IsNestedByDate(sgFetch.data))) =>
    TotalUsersOf(sgQuery) = UsersOfAll(RangesOf(sgQuery))

\* a merge that produced two buckets with users in both
C5_Witness ==
  /\ Settled200 /\ sgQuery.status = "success" /\ IsNestedByDate(sgFetch.data)
  /\ timePeriod = "monthly"
  /\ Len(RangesOf(sgQuery)) = 2
  /\ RangesOf(sgQuery)[1].total_users > 0
  /\ RangesOf(sgQuery)[2].total_users > 0
  /\ TotalUsersOf(sgQuery) = RangesOf(sgQuery)[1].total_users + RangesOf(sgQuery)[2].total_users

-----------------------------------------------------------------------------
(* C6 *)

\* data that matches none of the known shapes
IsUnmatched(data) ==
  \/ data.t = "null"
  \/ /\ data.t = "object"
     /\ ~HasField(data, "total_users")
     /\ ~HasField(data, "ranges")
     /\ ~IsCombinedShape(data)

IsEmptyArray(data) == IsArray(data) /\ data.items = <<>>

\* C6 as stated: for every period, a code-200 payload whose data matches none
\* of the known shapes, and likewise the bare empty array, normalizes to the
\* empty snapshot and the query function does not fail.
C6_FallbackNeverThrows ==
  (Settled200 /\ (IsUnmatched(sgFetch.data) \/ IsEmptyArray(sgFetch.data))) =>
    Outcome(sgQuery) = EmptyOutcome

InvalidFormatTexts ==
  { <<"daily", "Invalid daily data format">>,
    <<"weekly", "Invalid weekly data format">>,
    <<"monthly", "Invalid monthly data format">> }

\* C6, amended: for every period the bare empty array reads as the empty
\* snapshot (total_users 0, no ranges) and the query function does not fail;
\* data that is null or an object without total_users and ranges reads as
\* the empty snapshot under overall, and under daily, weekly and monthly
\* makes the query function fail with "Invalid <period> data format".
C6_FallbackByPeriod ==
  Settled200 =>
    /\ IsEmptyArray(sgFetch.data) => Outcome(sgQuery) = EmptyOutcome
    /\ (IsUnmatched(sgFetch.data) /\ timePeriod = "overall") =>
         Outcome(sgQuery) = EmptyOutcome
    /\ (IsUnmatched(sgFetch.data) /\ timePeriod \in DatedPeriods) =>
         /\ sgQuery.status = "error"
         /\ <<timePeriod, sgQuery.error>> \in InvalidFormatTexts

\* null data under the weekly period: the query function has failed
C6_Witness ==
  /\ Settled200 /\ timePeriod = "weekly" /\ sgFetch.data.t = "null"
  /\ sgQuery.status = "error"
  /\ sgQuery.error = "Invalid weekly data format"

-----------------------------------------------------------------------------
(* C8 *)

\* a non-empty string of decimal digits
IsNumeral(v) ==
  v.t = "string" /\ v.s # <<>> /\ \A i \in 1..Len(v.s) : IsDigit(v.s[i])

\* C8 as stated: open-ended parsing.  For every range shown, a
\* reward_to_range that is empty, missing, white space or non-numeric gives
\* toRange = null in the chart row, never NaN; a numeric one gives that
\* integer.
C8_OpenEndedParsing ==
  sgQuery.status = "success" =>
    LET shown == SelectRanges(RangesOf(sgQuery), timePeriod)
        rows == ChartData(sgQuery, timePeriod)
    IN \A i \in 1..Len(shown) :
         IF IsNumeral(shown[i].reward_to_range)
         THEN rows[i].toRange = Num(DigitsValue(shown[i].reward_to_range.s, 0))
         ELSE rows[i].toRange = Null

-----------------------------------------------------------------------------
(* C9 *)

\* ascending order of the parsed fromRange, parsed as the chart rows parse it
Ascending(ranges) ==
  \A i, j \in 1..Len(ranges) :
    i < j => ParseIntOr0(ranges[i].reward_from_range) <= ParseIntOr0(ranges[j].reward_from_range)

\* C9 as stated: in every normalized snapshot, whichever shape produced it,
\* the ranges are in ascending order of their parsed fromRange.
C9_SnapshotOrder ==
  sgQuery.status = "success" => Ascending(RangesOf(sgQuery))

\* C9, amended: the ranges of a snapshot built by the nested-by-date merge
\* (periods daily, weekly, monthly) are in ascending order of their parsed
\* fromRange; the combined shape, and the standard shape read under overall,
\* keep the order in which the backend listed the ranges.
C9_MergedOrder ==
  (Settled200 /\ sgQuery.status = "success") =>
    /\ (timePeriod \in DatedPeriods /\ ~IsCombinedShape(sgFetch.data)) =>
         Ascending(RangesOf(sgQuery))
    /\ IsCombinedShape(sgFetch.data) =>
         RangesOf(sgQuery) = sgFetch.data.aggregated.ranges
    /\ (timePeriod = "overall" /\ IsStandard(sgFetch.data)) =>
         RangesOf(sgQuery) = sgFetch.data.ranges

\* the first date lists a higher bracket than the second, and the merged
\* snapshot lists the lower bracket first
C9_Witness ==
  /\ Settled200 /\ sgQuery.status = "success" /\ timePeriod = "weekly"
  /\ IsNestedByDate(sgFetch.data)
  /\ Len(InputRanges(sgFetch.data.items)) = 2
  /\ ParseIntOr0(InputRanges(sgFetch.data.items)[1].reward_from_range)
       > ParseIntOr0(InputRanges(sgFetch.data.items)[2].reward_from_range)
  /\ Len(RangesOf(sgQuery)) = 2
  /\ SamePair(RangesOf(sgQuery)[1], InputRanges(sgFetch.data.items)[2])

-----------------------------------------------------------------------------
(* C10 *)

\* the ranges the backend sent, whatever the shape
BackendRanges(data) ==
  IF IsCombinedShape(data) THEN data.aggregated.ranges
  ELSE IF IsStandard(data) THEN data.ranges
  ELSE IF IsArray(data) THEN InputRanges(data.items)
  ELSE <<>>

NonEmptyWhenUsers ==
  /\ TotalUsersOf(sgQuery) > 0 => RangesOf(sgQuery) # <<>>
  /\ BackendRanges(sgFetch.data) = <<>> =>
       (RangesOf(sgQuery) = <<>> /\ TotalUsersOf(sgQuery) = 0)

\* C10 as stated: in every normalized snapshot, ranges is non-empty whenever
\* total_users > 0, and when the backend returned zero ranges the snapshot
\* has ranges = [] and total_users = 0.
C10_EmptinessInvariant ==
  (Settled200 /\ sgQuery.status = "success") => NonEmptyWhenUsers

\* C10, amended: in every snapshot whose total_users the client computes (the
\* merge of the daily, weekly and monthly branches), ranges is non-empty
\* whenever total_users > 0, and zero input ranges give ranges = [] and
\* total_users = 0; for the combined and standard shapes total_users is the
\* backend's own figure and is passed on as received.
C10_MergedEmptiness ==
  (Settled200 /\ sgQuery.status = "success") =>
    /\ (timePeriod \in DatedPeriods /\ ~IsCombinedShape(sgFetch.data)) =>
         NonEmptyWhenUsers
    /\ IsCombinedShape(sgFetch.data) =>
         TotalUsersOf(sgQuery) = sgFetch.data.aggregated.unique_users
    /\ (timePeriod = "overall" /\ IsStandard(sgFetch.data)) =>
         TotalUsersOf(sgQuery) = sgFetch.data.total_users

\* date entries that hold no range at all, merged under the monthly period
C10_Witness ==
  /\ Settled200 /\ sgQuery.status = "success" /\ timePeriod = "monthly"
  /\ IsNestedByDate(sgFetch.data)
  /\ InputRanges(sgFetch.data.items) = <<>>
  /\ RangesOf(sgQuery) = <<>>
  /\ TotalUsersOf(sgQuery) = 0

-----------------------------------------------------------------------------
(* C7 *)

\* the three queries: the response consumed, the state of the query, and the
\* fixed texts of its transport failure and of its application failure
Queries ==
  { [fetch |-> sgFetch, query |-> sgQuery,
     transportText |-> "Failed to fetch SpiceGold analytics data",
     fallbackText |-> "Failed to fetch data"],
    [fetch |-> teFetch, query |-> teQuery,
     transportText |-> "Failed to fetch top earners",
     fallbackText |-> "Failed to fetch top earners"],
    [fetch |-> paFetch, query |-> paQuery,
     transportText |-> "Failed to fetch analytics data",
     fallbackText |-> "Failed to fetch analytics data"] }

\* C7 as stated: for every query, a response whose envelope code is not 200
\* makes the query fail with the backend's message as the error detail and
\* yields no snapshot, however the HTTP transport status reads.
C7_ApplicationError ==
  \A q \in Queries :
    (q.query.status # "pending" /\ q.fetch.code # 200) =>
      /\ q.query.status = "error"
      /\ q.query.data = Null
      /\ q.query.error = q.fetch.message

\* C7, amended: for every query, a response whose envelope code is not 200
\* makes the query fail and yields no snapshot, whatever the HTTP transport
\* status; the error detail is the backend's message when the transport
\* status is ok and the message is not empty, the query's fixed "Failed to
\* fetch ..." text of a transport failure when the transport status is not
\* ok, and its fixed fallback text when the message is empty.
C7_ApplicationErrorDetail ==
  \A q \in Queries :
    (q.query.status # "pending" /\ q.fetch.code # 200) =>
      /\ q.query.status = "error"
      /\ q.query.data = Null
      /\ q.query.error =
           IF ~q.fetch.ok THEN q.transportText
           ELSE IF q.fetch.message # "" THEN q.fetch.message
           ELSE q.fallbackText

\* a code-500 envelope on an ok transport gave the backend's message to the
\* SpiceGold query, and the same envelope on a failed transport gave the
\* fixed text to the traffic query
C7_Witness ==
  /\ sgQuery.status = "error" /\ sgFetch.ok /\ sgFetch.code = 500
  /\ sgFetch.message = "quota exceeded" /\ sgQuery.error = "quota exceeded"
  /\ paQuery.status = "error" /\ ~paFetch.ok /\ paFetch.code = 500
  /\ paFetch.message = "quota exceeded"
  /\ paQuery.error = "Failed to fetch analytics data"
  /\ teQuery.status = "error" /\ teFetch.ok /\ teFetch.code = 500
  /\ teFetch.message = "" /\ teQuery.error = "Failed to fetch top earners"

-----------------------------------------------------------------------------
(* Bracket colours and labels *)

\* the rows of the chart the page draws in this state
Rows == ChartData(sgQuery, timePeriod)

\* the colour the table gives a bound: that of the least threshold not below it
TableColor(bound) ==
  IF \E i \in 1..Len(ColorTable) : bound <= ColorTable[i][1]
  THEN ColorTable[CHOOSE i \in 1..Len(ColorTable) :
                    /\ bound <= ColorTable[i][1]
                    /\ \A j \in 1..(i - 1) : bound > ColorTable[j][1]][2]
  ELSE DefaultColor

\* C11 (as stated): every row whose toRange is present, any integer >= 0 and
\* 0 included, has the colour of the first threshold its toRange is <= to, the
\* default colour only above 93000; a row whose toRange is absent has the
\* colour of the bound 100000
C11_ColorTable ==
  \A i \in 1..Len(Rows) :
    /\ (Rows[i].toRange.t = "number" /\ Rows[i].toRange.n >= 0)
         => /\ Rows[i].color = TableColor(Rows[i].toRange.n)
            /\ (Rows[i].color = DefaultColor => Rows[i].toRange.n > 93000)
    /\ Rows[i].toRange = Null => Rows[i].color = TableColor(100000)

\* C12: the colour of a row is the colour getBracketColor gives its bounds
\* under each of the four periods, and the range (0, 50) is "#ef4444"
C12_ColorStability ==
  \A i \in 1..Len(Rows) :
    /\ \A p1, p2 \in TimePeriods :
         /\ GetBracketColor(Rows[i].fromRange, Rows[i].toRange, p1)
              = GetBracketColor(Rows[i].fromRange, Rows[i].toRange, p2)
         /\ Rows[i].color = GetBracketColor(Rows[i].fromRange, Rows[i].toRange, p1)
    /\ (Rows[i].fromRange = 0 /\ Rows[i].toRange = Num(50)) => Rows[i].color = "#ef4444"

\* the range (0, 50) drawn under the daily period in its red
C12_Witness ==
  /\ timePeriod = "daily"
  /\ Len(Rows) = 1
  /\ Rows[1].fromRange = 0
  /\ Rows[1].toRange = Num(50)
  /\ Rows[1].color = "#ef4444"

\* the bound getBracketLabel compares: toRange, or fromRange + 10000 for a
\* toRange that is null, NaN or 0
LabelBound(row) ==
  IF row.toRange.t = "number" /\ row.toRange.n # 0 THEN row.toRange.n
  ELSE row.fromRange + 10000

DailyLadder ==
  << <<50, "Dormant / New">>, <<100, "Low Activity">>, <<400, "Moderate Activity">>,
     <<700, "High Activity">>, <<1000, "Top Daily Performer">> >>

SharedLadder ==
  DailyLadder \o
    << <<4000, "Consistent User">>, <<7000, "Engaged User">>,
       <<15000, "High Retention User">>, <<23000, "Core Loyal User">>,
       <<31000, "Top Monthly Performer">>, <<62000, "Elite / Long-Term Loyalist">>,
       <<93000, "Legacy Tier / Ultra Engaged">> >>

LadderOf(period) == IF period = "daily" THEN DailyLadder ELSE SharedLadder

\* the label a ladder gives a bound
LadderLabel(ladder, bound) ==
  IF \E i \in 1..Len(ladder) : bound <= ladder[i][1]
  THEN ladder[CHOOSE i \in 1..Len(ladder) :
                /\ bound <= ladder[i][1]
                /\ \A j \in 1..(i - 1) : bound > ladder[j][1]][2]
  ELSE "Elite Tier"

-----------------------------------------------------------------------------
(* Zero-bucket filtering *)

HasUsers(range) == range.total_users > 0

\* the ranges of the snapshot the claim keeps under a period
KeptRanges(period) ==
  IF period = "overall" THEN RangesOf(sgQuery)
  ELSE SelectSeq(RangesOf(sgQuery), HasUsers)

\* C14: the chart rows are the rows of every range of the snapshot under the
\* overall period, and of exactly the ranges with total_users > 0 under
\* daily, weekly and monthly, in the order of the snapshot
C14_ZeroBucketFilter ==
  /\ Len(Rows) = Len(KeptRanges(timePeriod))
  /\ \A i \in 1..Len(Rows) :
       /\ Rows[i].users = KeptRanges(timePeriod)[i].total_users
       /\ Rows[i].fromRange = ParseIntOr0(KeptRanges(timePeriod)[i].reward_from_range)
       /\ Rows[i].toRange = ParseToRange(KeptRanges(timePeriod)[i].reward_to_range)

\* a dated snapshot of two ranges, the first without users, drawn as one row
C14_Witness ==
  /\ timePeriod \in DatedPeriods
  /\ Len(RangesOf(sgQuery)) = 2
  /\ RangesOf(sgQuery)[1].total_users = 0
  /\ RangesOf(sgQuery)[2].total_users > 0
  /\ Len(Rows) = 1

-----------------------------------------------------------------------------
(* Traffic aggregation *)

\* the records the traffic page aggregates in this state
TrafficData == AnalyticsDataOf(paQuery)

Aggregate == AggregatedByPage(TrafficData)

IsLandingAlias(record) == record.page \in {"credential", "landing_page"}

TrafficCounters ==
  {"totalUsers", "old", "new", "firstTime",
   "todayCreated", "firstTimeVisitorsCreated", "nonFirstTimeVisitorsCreated"}

\* the sum of counter f over those positions of data whose normalized page
\* is page, each position counted once
RECURSIVE SumAt(_, _, _, _)
SumAt(data, positions, page, f) ==
  IF positions = {} THEN 0
  ELSE LET k == CHOOSE x \in positions : TRUE
           own == (IF data[k].page = "credential" THEN "landing_page" ELSE data[k].page)
                    = page
       IN (IF own /\ f \in DOMAIN data[k] THEN data[k][f] ELSE 0)
            + SumAt(data, positions \ {k}, page, f)

SumOfPage(data, page, f) == SumAt(data, DOMAIN data, page, f)

\* C15: the aggregate has no "credential" entry and at most one
\* "landing_page" entry, present exactly when a record of either name came
\* in, whose counters are the sums over all records named "credential" or
\* "landing_page"
C15_AliasUnification ==
  /\ \A i \in 1..Len(Aggregate) : Aggregate[i].page # "credential"
  /\ \A i, j \in 1..Len(Aggregate) :
       (Aggregate[i].page = "landing_page" /\ Aggregate[j].page = "landing_page") => i = j
  /\ (\E k \in 1..Len(TrafficData) : IsLandingAlias(TrafficData[k]))
       <=> (\E i \in 1..Len(Aggregate) : Aggregate[i].page = "landing_page")
  /\ \A i \in 1..Len(Aggregate) :
       Aggregate[i].page = "landing_page"
         => \A f \in TrafficCounters :
              Aggregate[i][f] = SumOfPage(TrafficData, "landing_page", f)

\* a "credential" and a "landing_page" record with visits, summed in one entry
C15_Witness ==
  /\ Len(TrafficData) >= 2
  /\ TrafficData[1].page = "credential"
  /\ TrafficData[2].page = "landing_page"
  /\ TrafficData[1].totalUsers > 0
  /\ TrafficData[2].totalUsers > 0
  /\ HasField(TrafficData[2], "todayCreated")
  /\ ~HasField(TrafficData[1], "todayCreated")
  /\ Len(Aggregate) = 1
  /\ Aggregate[1].totalUsers = TrafficData[1].totalUsers + TrafficData[2].totalUsers

PermutationsOf(n) ==
  { f \in [1..n -> 1..n] : \A i, j \in 1..n : f[i] = f[j] => i = j }

Permuted(data, f) == [i \in 1..Len(data) |-> data[f[i]]]

EntriesOf(pages) == { pages[i] : i \in 1..Len(pages) }

\* the first position of data whose normalized page is page
FirstSeenAt(data, page) ==
  CHOOSE k \in 1..Len(data) :
    /\ NormalizedPage(data[k]) = page
    /\ \A m \in 1..(k - 1) : NormalizedPage(data[m]) # page

\* C16: every permutation of the records aggregates to the same entries, one
\* per normalized page with its summed counters, and the entries stand in
\* the order in which their pages are first seen in the input
C16_OrderIndependence ==
  /\ \A f \in PermutationsOf(Len(TrafficData)) :
       EntriesOf(AggregatedByPage(Permuted(TrafficData, f))) = EntriesOf(Aggregate)
  /\ { Aggregate[i].page : i \in 1..Len(Aggregate) }
       = { NormalizedPage(TrafficData[k]) : k \in 1..Len(TrafficData) }
  /\ \A i \in 1..Len(Aggregate) :
       \A c \in TrafficCounters :
         Aggregate[i][c] = SumOfPage(TrafficData, Aggregate[i].page, c)
  /\ \A i, j \in 1..Len(Aggregate) :
       i < j => FirstSeenAt(TrafficData, Aggregate[i].page)
                  < FirstSeenAt(TrafficData, Aggregate[j].page)

\* three records of two pages, the alias after the other page
C16_Witness ==
  /\ Len(TrafficData) = 3
  /\ TrafficData[1].page = "landing_page"
  /\ TrafficData[2].page = "home"
  /\ TrafficData[3].page = "credential"
  /\ TrafficData[1].totalUsers > 0
  /\ TrafficData[3].totalUsers > 0
  /\ Len(Aggregate) = 2
  /\ Aggregate[1].page = "landing_page"
  /\ Aggregate[2].page = "home"

-----------------------------------------------------------------------------
(* Derived percentages *)

Breakdown == PageBreakdown(TrafficData)

IsNumber(v) == v.t = "number"

\* the percentages of the traffic page: numbers, and 0 over a denominator 0
TrafficPercentagesZeroSafe ==
  \A i \in 1..Len(Breakdown) :
    /\ IsNumber(Breakdown[i].newUsersPercentage)
    /\ IsNumber(Breakdown[i].oldUsersPercentage)
    /\ IsNumber(Breakdown[i].firstTimeUsersPercentage)
    /\ IsNumber(Breakdown[i].overallPagePercentage)
    /\ Breakdown[i].pageTotal = 0
         => /\ Breakdown[i].newUsersPercentage = Num(0)
            /\ Breakdown[i].oldUsersPercentage = Num(0)
            /\ Breakdown[i].firstTimeUsersPercentage = Num(0)
    /\ OverallTotalUsers(Aggregate) = 0 => Breakdown[i].overallPagePercentage = Num(0)

\* C17 (as stated): every percentage of an aggregated page is a number and is
\* 0 when its denominator is 0, and the share of every range drawn is 0 when
\* the snapshot's total_users is 0
C17_ZeroSafePercentages ==
  /\ TrafficPercentagesZeroSafe
  /\ TotalUsersOf(sgQuery) = 0 => \A i \in 1..Len(Rows) : Rows[i].percentage = 0

\* C17 (amended): every percentage of an aggregated page is a number and is 0
\* when its denominator is 0; the share of a range is its users over
\* total_users, over 1 when total_users is 0, so that under total_users = 0
\* it is 100 times the users of the range (in tenths: 1000 times), which is 0
\* only for a range without users
C17_ZeroSafeShares ==
  /\ TrafficPercentagesZeroSafe
  /\ \A i \in 1..Len(Rows) :
       /\ Rows[i].percentage \in Nat
       /\ TotalUsersOf(sgQuery) = 0 => Rows[i].percentage = 1000 * Rows[i].users
       /\ TotalUsersOf(sgQuery) > 0
            => \/ 2 * TotalUsersOf(sgQuery) * Rows[i].percentage
                    - 2000 * Rows[i].users \in 0..TotalUsersOf(sgQuery)
               \/ 2000 * Rows[i].users
                    - 2 * TotalUsersOf(sgQuery) * Rows[i].percentage
                    \in 1..(TotalUsersOf(sgQuery) - 1)

\* a page without visits next to a page with visits on the traffic page, and
\* a range with users under a total of 0 on the SpiceGold page
C17_Witness ==
  /\ Len(Breakdown) = 2
  /\ Breakdown[1].pageTotal = 0
  /\ Breakdown[2].pageTotal > 0
  /\ OverallTotalUsers(Aggregate) = 0
  /\ Len(Rows) = 1
  /\ Rows[1].users > 0
  /\ TotalUsersOf(sgQuery) = 0

-----------------------------------------------------------------------------
(* Stale responses *)

\* what the view of a query renders: the data of the entry of its key
Rendered(name) == cache[ViewKey(name)].data

-----------------------------------------------------------------------------
(* Requests on the network *)

\* C19: at every moment at most one request per query key is in flight;
\* neither a poll tick nor a click on Refresh adds a second one for a key
\* whose response is awaited.
C19_NoPileUp == \A key \in QueryKeys : wire[key] <= 1

-----------------------------------------------------------------------------
(* Periodic refresh *)

\* the fetch of the key a view shows has completed and none is under way
Completed(name) ==
  LET entry == cache[ViewKey(name)]
  IN entry.data # NoData /\ ~entry.fetching

\* the view has another fetch of the key under way
Refetching(name, key) == ViewKey(name) = key /\ cache[key].fetching

\* C20: each query of a mounted view (page traffic, SpiceGold range
\* distribution, top earners) is issued again on the 30-second interval:
\* after every completed fetch another fetch of the same key eventually
\* happens without any user action.
C20_PeriodicRefresh ==
  \A name \in QueryNames : \A key \in QueryKeys :
    (ViewKey(name) = key /\ Completed(name)) ~> (Refetching(name, key) \/ ViewKey(name) # key)

\* the same for the queries that set refetchInterval
C20_PolledRefresh ==
  \A name \in PolledQueries : \A key \in QueryKeys :
    (ViewKey(name) = key /\ Completed(name)) ~> (Refetching(name, key) \/ ViewKey(name) # key)

-----------------------------------------------------------------------------
(* Query identity *)

\* C21: the query key includes the date range, for the SpiceGold range query
\* as for the traffic query: a render with the same period and another date
\* range uses another query key.
C21_RangeInKey ==
  [][ /\ (trafficPeriod' = trafficPeriod /\ dateRange' # dateRange)
          => ViewKey("analytics")' # ViewKey("analytics")
      /\ (timePeriod' = timePeriod /\ sgRange' # sgRange)
          => ViewKey("spicegold-analytics")' # ViewKey("spicegold-analytics") ]_vars

-----------------------------------------------------------------------------
(* CSV exports *)

\* the exports a click can make in the current state: a button is there
\* to click only where its page renders it
Exports ==
  (IF sgQuery.status # "pending" /\ teQuery.status # "pending" /\ Rows # <<>>
   THEN { RangeCsvExport(sgQuery, timePeriod) } ELSE {})
    \cup (IF sgQuery.status # "pending" /\ teQuery.status # "pending"
             /\ timePeriod # "overall" /\ HasBreakdown(sgQuery)
          THEN { BreakdownCsvExport(sgQuery, selected) : selected \in SelectedDates(sgRange) }
          ELSE {})
    \cup (IF paQuery.status # "pending" /\ TrafficData # <<>>
          THEN { TrafficCsvExport(paQuery), TimelineCsvExport(paQuery) } ELSE {})
    \cup (IF teQuery.status = "success" THEN { TopPlayersCsvExport(teQuery) } ELSE {})

\* C22: an export of empty data makes no file and shows a notice; a file
\* with only a header row is never made.
C22_EmptyExport ==
  \A export \in Exports :
    /\ export.made => export.rows # <<>>
    /\ ~export.made => export.notice # NoNotice

-----------------------------------------------------------------------------
(* Failed queries *)

\* a successful result without any data
EmptyRanges == Success([code |-> 200, message |-> "success",
                        data |-> [t |-> "object", total_users |-> 0, ranges |-> <<>>]])

EmptyList == Success([code |-> 200, message |-> "success", data |-> ArrayOf(<<>>)])

\* C23: in every view a query that ended in the error state shows a message
\* (or a retry), and is not rendered as an empty successful result is.
C23_NoSilentFailure ==
  /\ paQuery.status = "error" =>
       /\ TrafficView(paQuery).message # ""
       /\ TrafficView(paQuery) # TrafficView(Success(<<>>))
  /\ teQuery.status = "error" =>
       /\ TopPlayersView(teQuery).message # ""
       /\ TopPlayersView(teQuery) # TopPlayersView(EmptyList)
  /\ sgQuery.status = "error" =>
       /\ SpiceGoldView(sgQuery, teQuery, timePeriod).message # ""
       /\ SpiceGoldView(sgQuery, teQuery, timePeriod)
            # SpiceGoldView(EmptyRanges, teQuery, timePeriod)
  /\ teQuery.status = "error" =>
       /\ SpiceGoldView(sgQuery, teQuery, timePeriod).message # ""
       /\ SpiceGoldView(sgQuery, teQuery, timePeriod)
            # SpiceGoldView(sgQuery, EmptyList, timePeriod)

\* the same for the two pages that read isError
C23_ErrorsShown ==
  /\ paQuery.status = "error" =>
       /\ TrafficView(paQuery).message # ""
       /\ TrafficView(paQuery) # TrafficView(Success(<<>>))
  /\ teQuery.status = "error" =>
       /\ TopPlayersView(teQuery).message # ""
       /\ TopPlayersView(teQuery) # TopPlayersView(EmptyList)

-----------------------------------------------------------------------------
(* Repeated normalization *)

-----------------------------------------------------------------------------
(* Per-date breakdown *)

\* the sum of a counter over the records of a date under either name of the
\* landing page
LandingSumOn(date, counter) ==
  SumOfPage(PageItems(TrafficData, date, "landing_page"), "landing_page", counter)

\* C25: in the per-date breakdown the landing_page value of a date is the sum
\* over the records of that date whose page is "credential" or
\* "landing_page"; neither kind is dropped.
C25_PerDateAlias ==
  LET pageData == PageData(TrafficData, "landing_page")
  IN \A k \in 1..Len(pageData) :
       \A counter \in {"totalUsers", "new", "old", "firstTime"} :
         pageData[k][counter] = LandingSumOn(pageData[k].date, counter)

-----------------------------------------------------------------------------
(* Header totals *)

HeaderCounters == {"totalUsers", "old", "new", "firstTime"}

\* the header cards and the aggregate show the same landing-page counters
HeaderAgrees(period) ==
  LET header == CredentialPageData(TrafficData, period)
      landing == LandingPageData(TrafficData)
  IN IF header = Undefined \/ landing = Undefined
     THEN header = Undefined /\ landing = Undefined
     ELSE \A counter \in HeaderCounters : header[counter] = landing[counter]

\* C26, as stated: under every period the landing-page counters of the
\* header cards equal those of the landing_page entry of the aggregate.
C26_HeaderTotals == \A period \in TrafficPeriods : HeaderAgrees(period)

\* what the page computes: the counters agree under weekly and monthly;
\* under daily the header shows the first landing record, which is the
\* aggregate's entry when the payload holds one landing record.
C26_HeaderTotalsByPeriod ==
  /\ HeaderAgrees("weekly") /\ HeaderAgrees("monthly")
  /\ LET entries == CredentialEntries(TrafficData)
     IN /\ entries # <<>> => CredentialPageData(TrafficData, "daily") = entries[1]
        /\ Len(entries) <= 1 => HeaderAgrees("daily")

-----------------------------------------------------------------------------
(* Colour and label of one tier *)

\* the rung of the twelve thresholds a colour stands for, 13 for the default
ColorRung(color) ==
  IF \E i \in 1..Len(ColorTable) : ColorTable[i][2] = color
  THEN CHOOSE i \in 1..Len(ColorTable) : ColorTable[i][2] = color
  ELSE Len(ColorTable) + 1

\* the rung a label of the shared ladder stands for, 13 for "Elite Tier"
LabelRung(label) ==
  IF \E i \in 1..Len(SharedLabelTable) : SharedLabelTable[i][2].label = label
  THEN CHOOSE i \in 1..Len(SharedLabelTable) : SharedLabelTable[i][2].label = label
  ELSE Len(SharedLabelTable) + 1

\* C27: under weekly, monthly and overall the colour and the label of every
\* row, open-ended rows included, stand for the same rung of the thresholds.
C27_SameTier ==
  timePeriod \in {"weekly", "monthly", "overall"} =>
    \A i \in 1..Len(Rows) : ColorRung(Rows[i].color) = LabelRung(Rows[i].bracketLabel)

\* the same for the rows with an upper bound that is a number other than 0
C27_SameTierBounded ==
  timePeriod \in {"weekly", "monthly", "overall"} =>
    \A i \in 1..Len(Rows) :
      (Rows[i].toRange.t = "number" /\ Rows[i].toRange.n # 0) =>
        ColorRung(Rows[i].color) = LabelRung(Rows[i].bracketLabel)

-----------------------------------------------------------------------------
(* Period and date range of the traffic page *)

\* a date range that fits a period: none, one picked in the calendar, or the
\* period's default range
FitsPeriod(period, range) == range \in {"none", "picked", DefaultRange(period)}

\* the keys useAnalytics has been called with: a request was sent for each
KeysCreated ==
  { key \in QueryKeys :
      /\ key[1] = "analytics"
      /\ (cache[key].fetching \/ cache[key].data # NoData \/ wire[key] > 0) }

\* C28: in every render of the traffic page the date range passed to
\* useAnalytics is the period's default range or one chosen under that period;
\* no key pairs a period with the range of the period before it, and under
\* daily a range that is set has from = to.
C28_PeriodRangeConsistent ==
  /\ FitsPeriod(trafficPeriod, dateRange)
  /\ \A key \in KeysCreated : FitsPeriod(key[2], key[3])
  /\ trafficPeriod = "daily" => dateRange \notin {"week", "month"}

-----------------------------------------------------------------------------
(* Requested dates *)

\* C29: the calendars disable today and every later day, and a date range
\* that is set, default, picked or reset, on the traffic page or the
\* SpiceGold page, ends before today.
C29_PastOnly ==
  /\ \A day \in PickableDays : day < 0
  /\ \A range \in {dateRange, sgRange} : \A day \in ToDays(range) : day < 0

\* the same for the calendars, the default of daily and the picked ranges
C29_PickedPast ==
  /\ \A day \in PickableDays : day < 0
  /\ \A range \in {dateRange, sgRange} \cap {"yesterday", "picked"} :
       \A day \in ToDays(range) : day < 0

-----------------------------------------------------------------------------
(* The rows of the breakdown CSV *)

RECURSIVE SumCells(_)
SumCells(cells) ==
  IF cells = <<>> THEN 0 ELSE Head(cells) + SumCells(Tail(cells))

\* the date ranges the SpiceGold page can hold under a period
RangesUnder(period) == {"picked", "none", SpiceGoldDefaultRange(period)}

\* each row's Total Users is the sum of the row's range columns
RowsAddUp(export) ==
  \A i \in 1..Len(export.rows) : export.rows[i].total = SumCells(export.rows[i].cells)

\* every range with users on an exported date has a column
RangesHaveColumns(weeklyBreakdown, allRanges) ==
  \A i \in 1..Len(weeklyBreakdown) :
    DayUsers(weeklyBreakdown[i]) > 0 =>
      \A k \in 1..Len(weeklyBreakdown[i].ranges) :
        LET r == weeklyBreakdown[i].ranges[k]
        IN r.total_users > 0 =>
             \E j \in 1..Len(allRanges) :
               /\ allRanges[j].reward_from_range = r.reward_from_range
               /\ allRanges[j].reward_to_range = r.reward_to_range

\* the exported dates are the dates the columns were taken from
SameDates(export, datesWithData) ==
  { export.rows[i].date : i \in 1..Len(export.rows) }
    = { datesWithData[i].date : i \in 1..Len(datesWithData) }

\* C30: in the breakdown CSV of a settled by-date query, under every date
\* range the page can hold, each row's Total Users equals the sum of its range
\* columns, every range with users on an exported date has a column, and the
\* exported dates are the dates the columns were derived from.
C30_BreakdownAddsUp ==
  (timePeriod # "overall" /\ HasBreakdown(sgQuery)) =>
    \A range \in RangesUnder(timePeriod) : \A selected \in SelectedDates(range) :
      LET export == BreakdownCsvExport(sgQuery, selected)
          weeklyBreakdown == sgQuery.data.data.weeklyBreakdown
          datesWithData == DatesWithData(weeklyBreakdown, selected)
      IN export.made =>
           /\ RowsAddUp(export)
           /\ RangesHaveColumns(weeklyBreakdown, AllRanges(datesWithData))
           /\ SameDates(export, datesWithData)

\* what the export does keep: a row per date with users, its total the
\* users of the day, a cell per column
C30_RowsOfDatesWithUsers ==
  (timePeriod # "overall" /\ HasBreakdown(sgQuery)) =>
    \A range \in RangesUnder(timePeriod) : \A selected \in SelectedDates(range) :
      LET export == BreakdownCsvExport(sgQuery, selected)
      IN export.made =>
           \A i \in 1..Len(export.rows) :
             /\ export.rows[i].total > 0
             /\ Len(export.rows[i].cells) + 2 = Len(export.headers)

====
